---- MODULE Spec2Model ----
(***************************************************************************)
(* A model of rpi-director (src/rpi_director): the GPIO manager (debounced *)
(* buttons on the interrupt and the polling path, cached LED writes), the  *)
(* MQTT session manager, and the server and client coordinators.           *)
(*                                                                         *)
(* Time is counted in units of 100 ms: time.time() is the variable now.    *)
(* The module holds several specifications over one set of variables; each *)
(* leaves the variables of the other parts at their initial values.        *)
(***************************************************************************)
EXTENDS Integers, Sequences, FiniteSets, TLC

\* ------------------------------------------------------------ constants
\* gpio.py:227 and :267, the 0.2 s software debounce, in units of 100 ms.
DEBOUNCE == 2

\* Bounds of the model.
MaxTime == 4
MaxPresses == 3
MaxCalls == 3
MaxTimeServer == 6
MaxInbox == 1
MaxBacklog == 3
MaxIntervals == 9
MaxPin == 5
MaxBeats == 2

\* server.py:27, BUTTON_COOLDOWN = 0.3 s, in units of 100 ms.
BUTTON_COOLDOWN == 3

\* server.py:31, CLIENT_TIMEOUT = 12.0 s.
CLIENT_TIMEOUT == 120

\* client.py:22, heartbeat_interval = 3.0 s.
HEARTBEAT_INTERVAL == 30

HIGH == 1
LOW == 0

\* The button names of the node under study, in the iteration order of the
\* button_pins dict.
ButtonOrder == <<"red", "green">>
Buttons == {ButtonOrder[i] : i \in DOMAIN ButtonOrder}

\* The static roster (settings.clients_list) and the nodes of the system.
Clients == {"client1", "client2"}
Nodes == {"server"} \cup Clients

\* server.py:98: f"yellow_{client_id}".
YellowLedName(c) == IF c = "client1" THEN "yellow_client1" ELSE "yellow_client2"

\* settings.get_led_pins() of each role. The server has a yellow LED for
\* client1 and none for client2, so both branches of server.py:99 are taken.
ServerLeds == {"red", "green", "yellow_client1"}
ClientLeds == {"red", "green", "yellow"}
LedPins(n) == IF n = "server" THEN ServerLeds ELSE ClientLeds

\* The threads of the server process that run its handlers: the interrupt
\* dispatcher of RPi.GPIO, the polling thread, the network thread and a
\* status worker.
Contexts == {"irq", "poll", "network", "status"}

\* A client identifier that is not in the roster.
Stranger == "client9"
Ids == Clients \cup {Stranger}

\* clients_list in list order, and get_led_pins() in dict order.
ClientOrder == <<"client1", "client2">>
LedOrder(n) == IF n = "server" THEN <<"red", "green", "yellow_client1">>
               ELSE <<"red", "green", "yellow">>

\* The buttons of the server (settings.server_buttons).
ServerButtons == {"red", "green", "clear"}

\* A button of the server that process_button_press has no branch for
\* (settings.server_buttons may name any button).
ExtraButton == "blue"

\* Every LED name a caller may pass, configured or not.
LedNames == ServerLeds \cup ClientLeds \cup {"yellow_client2"}

VARIABLES
    now,                \* time.time()
    \* --- GPIOManager, buttons
    pin_level,          \* the level GPIO.input(pin) returns, per button
    edge_pins,          \* buttons whose add_event_detect succeeded
    button_states,      \* GPIOManager.button_states
    last_button_press,  \* GPIOManager.last_button_press
    gpio_lock,          \* holder of GPIOManager.gpio_lock, or "free"
    irq_pending,        \* falling edges latched, callback not yet invoked
    irq,                \* the interrupt dispatcher's thread
    poll,               \* the polling thread (monitor_buttons_polling)
    presses,            \* number of physical presses so far
    fell_at,            \* when each button's pin last fell (0: no edge to judge)
    edges,              \* history: every falling edge the code has judged
    \* --- GPIOManager, LEDs (one manager per node)
    led_states,         \* GPIOManager.led_states of each node
    led_out,            \* the level last written to each LED pin of the server
    calls,              \* history: the set_led calls made on the server's manager
    \* --- MQTTManager (one session per node) and the broker
    mqtt_connected,     \* MQTTManager.mqtt_connected
    link,               \* mqtt_client.is_connected(), the transport's own state
    disc_pending,       \* the transport lost the link, _on_disconnect not yet run
    subs,               \* the topic filters subscribed on the current connection
    inbox,              \* messages received for a node, _on_message not yet run
    net_busy,           \* nodes whose network thread is inside a callback
    retained,           \* the broker's retained messages
    \* --- LEDDirectorServer
    current_mode,       \* LEDDirectorServer.current_mode
    client_yellow_states,
    client_last_press,
    connected_clients,  \* LEDDirectorServer.connected_clients
    \* --- history
    out,                \* the messages the last handler handed to the broker
    op,                 \* the last handler that ran
    yellow_accepted_at, \* when the press that last toggled a peer's state arrived
    heartbeat_at,       \* when the last heartbeat of an id was handled, -1: never
    commanded,          \* the LED values the last server press commanded, and
                        \* whether the server's session was connected then
    trace,              \* the calls the last button or connect handler made,
                        \* in program order
    beats,              \* per client: the heartbeat ticks taken, those taken
                        \* while the session was connected, and the heartbeats
                        \* published
    \* --- construction and threads
    connect_callback,   \* nodes whose MQTTManager has the attribute connect_callback
    heartbeat_running,  \* LEDDirectorClient.heartbeat_running
    running,            \* nodes whose run() has reached its main loop
    \* --- shutdown of the process under study
    shutdown_flag,      \* base.shutdown_flag, the process-wide Event
    main,               \* where the main thread is in run() and cleanup()
    released,           \* the resources cleanup() has released
    \* --- construction of the GPIO manager, threads inside set_led
    pin_config,         \* settings.get_button_pins() and get_led_pins()
    gpio_setup,         \* what GPIOManager.__init__ did: its outcome and the
                        \* pins it set up as inputs and as outputs
    writer,             \* per calling thread: its position inside set_led
    \* --- MQTTManager, the signal behind wait_for_connection
    mqtt_connected_event,
    \* --- the server's handlers, statement by statement
    todo,               \* per thread of the server: the calls the handler it is
                        \* in has still to make, in program order
    coord_led,          \* the state the server's coordinator last asked for,
                        \* per LED, through LEDDirectorBase.set_led
    \* --- history of the retained state topics
    state_sent          \* per node, for each LED whose state topic is watched:
                        \* the state in the last retained state message the
                        \* broker took, "none" before any

gpioVars == <<pin_level, edge_pins, button_states, last_button_press, gpio_lock,
              irq_pending, irq, poll, presses, fell_at, edges>>

ledVars == <<led_states, led_out, calls>>

sessionVars == <<mqtt_connected, link, disc_pending, subs, inbox, net_busy,
                 retained>>

serverVars == <<current_mode, client_yellow_states, client_last_press,
                connected_clients>>

historyVars == <<out, op, yellow_accepted_at, heartbeat_at, commanded, trace, beats>>

stopVars == <<shutdown_flag, main, released>>

ioVars == <<pin_config, gpio_setup, writer>>

handlerVars == <<todo, coord_led>>

threadVars == <<connect_callback, heartbeat_running, running, stopVars, ioVars,
                mqtt_connected_event, handlerVars>>

lifeVars == <<threadVars, state_sent>>

coordVars == <<sessionVars, serverVars, historyVars, lifeVars>>

vars == <<now, gpioVars, ledVars, coordVars>>

\* ------------------------------------------------------------ GPIO buttons

\* gpio.py:227: the interrupt path drops the press.
IrqTooSoon(current_time, last_press) == current_time - last_press < DEBOUNCE

\* A polling path that compares against no interval at all.
PollAcceptsAnyGap(current_time, last_press) == current_time - last_press >= 0

\* gpio.py:267: the polling path accepts the press.
PollAccepts(current_time, last_press) == current_time - last_press >= DEBOUNCE

\* gpio.py:244-245: the buttons left to polling, in dict order.
NonEdgeOrder == SelectSeq(ButtonOrder, LAMBDA b : b \notin edge_pins)

IrqIdle == [pc |-> "idle", color |-> "none", current_time |-> 0, fell |-> 0]
PollIdle == [pc |-> "sleep", color |-> "none", current_time |-> 0, rest |-> <<>>,
             current_state |-> HIGH, fell |-> 0]

\* The state GPIOManager.__init__ leaves (setup_gpio, _setup_button_pins).
InitGpio ==
    /\ pin_level = [b \in Buttons |-> HIGH]
    /\ edge_pins \in SUBSET Buttons
    /\ button_states = [b \in Buttons |-> HIGH]
    /\ last_button_press = [b \in Buttons |-> 0]
    /\ gpio_lock = "free"
    /\ irq_pending = {}
    /\ irq = IrqIdle
    /\ poll = PollIdle
    /\ presses = 0
    /\ fell_at = [b \in Buttons |-> 0]
    /\ edges = <<>>

\* The user presses button b: the pin falls. On an edge-detected pin the
\* library latches the falling edge for its callback thread.
Press(b) ==
    /\ pin_level[b] = HIGH
    /\ presses < MaxPresses
    /\ pin_level' = [pin_level EXCEPT ![b] = LOW]
    /\ presses' = presses + 1
    /\ fell_at' = [fell_at EXCEPT ![b] = now]
    /\ irq_pending' = IF b \in edge_pins THEN irq_pending \cup {b} ELSE irq_pending
    /\ UNCHANGED <<ledVars, coordVars, now, edge_pins, button_states, last_button_press, gpio_lock,
                   irq, poll, edges>>

\* The user releases button b (or the contact bounces open).
Release(b) ==
    /\ pin_level[b] = LOW
    /\ pin_level' = [pin_level EXCEPT ![b] = HIGH]
    /\ fell_at' = IF b \in irq_pending THEN fell_at ELSE [fell_at EXCEPT ![b] = 0]
    /\ UNCHANGED <<ledVars, coordVars, now, edge_pins, button_states, last_button_press, gpio_lock,
                   irq_pending, irq, poll, presses, edges>>

\* gpio.py:219-221: the library invokes _button_callback(color); the callback
\* reads the clock before it takes the lock.
IrqSample(b) ==
    /\ irq.pc = "idle"
    /\ b \in irq_pending
    /\ irq_pending' = irq_pending \ {b}
    /\ irq' = [pc |-> "sampled", color |-> b, current_time |-> now,
                fell |-> fell_at[b]]
    /\ fell_at' = [fell_at EXCEPT ![b] = 0]
    /\ UNCHANGED <<ledVars, coordVars, now, pin_level, edge_pins, button_states, last_button_press,
                   gpio_lock, poll, presses, edges>>

\* gpio.py:223: with self.gpio_lock.
IrqLock ==
    /\ irq.pc = "sampled"
    /\ gpio_lock = "free"
    /\ gpio_lock' = "irq"
    /\ irq' = [irq EXCEPT !.pc = "locked"]
    /\ UNCHANGED <<ledVars, coordVars, now, pin_level, edge_pins, button_states, last_button_press,
                   irq_pending, poll, presses, fell_at, edges>>

\* gpio.py:224-231: the debounce check and the timestamp update, then the lock
\* is released; an accepted press goes on to the callback (233-236).
IrqDebounce ==
    /\ irq.pc = "locked"
    /\ LET b == irq.color
           dropped == IrqTooSoon(irq.current_time, last_button_press[b])
       IN /\ last_button_press' =
                 IF dropped THEN last_button_press
                 ELSE [last_button_press EXCEPT ![b] = irq.current_time]
          /\ irq' = IF dropped THEN IrqIdle
                    ELSE [irq EXCEPT !.pc = "callback", !.fell = 0]
          /\ edges' = Append(edges, [color |-> b, src |-> "irq", fell |-> irq.fell,
                                     ts |-> irq.current_time, ok |-> ~dropped])
    /\ gpio_lock' = "free"
    /\ UNCHANGED <<ledVars, coordVars, now, pin_level, edge_pins, button_states, irq_pending, poll,
                   presses, fell_at>>

\* gpio.py:236: button_press_callback(color) returns.
IrqReturn ==
    /\ irq.pc = "callback"
    /\ irq' = IrqIdle
    /\ UNCHANGED <<ledVars, coordVars, now, pin_level, edge_pins, button_states, last_button_press,
                   gpio_lock, irq_pending, poll, presses, fell_at, edges>>

\* gpio.py:256-259: the shutdown Event is clear and a pass of the polling
\* loop starts; the clock is read once for the whole pass.
PollStart ==
    /\ poll.pc = "sleep"
    /\ ~shutdown_flag
    /\ NonEdgeOrder # <<>>
    /\ poll' = [poll EXCEPT !.pc = "scan", !.current_time = now,
                            !.rest = NonEdgeOrder]
    /\ UNCHANGED <<ledVars, coordVars, now, pin_level, edge_pins, button_states, last_button_press,
                   gpio_lock, irq_pending, irq, presses, fell_at, edges>>

\* gpio.py:259-261: the next button of the pass; the lock is taken and the pin
\* is read.
PollLock ==
    /\ poll.pc = "scan"
    /\ poll.rest # <<>>
    /\ gpio_lock = "free"
    /\ gpio_lock' = "poll"
    /\ poll' = [poll EXCEPT !.pc = "locked", !.color = Head(poll.rest),
                            !.rest = Tail(poll.rest),
                            !.current_state = pin_level[Head(poll.rest)],
                            !.fell = fell_at[Head(poll.rest)]]
    /\ UNCHANGED <<ledVars, coordVars, now, pin_level, edge_pins, button_states, last_button_press,
                   irq_pending, irq, presses, fell_at, edges>>

\* gpio.py:262-277: the falling-edge test, the debounce check and the
\* timestamp update, the new button state; then the lock is released. An
\* accepted press goes on to the callback (280-283).
PollDebounce ==
    /\ poll.pc = "locked"
    /\ LET b == poll.color
           falling == button_states[b] = HIGH /\ poll.current_state = LOW
           should_process ==
               falling /\ PollAccepts(poll.current_time, last_button_press[b])
       IN /\ last_button_press' =
                 IF should_process
                 THEN [last_button_press EXCEPT ![b] = poll.current_time]
                 ELSE last_button_press
          /\ button_states' = [button_states EXCEPT ![b] = poll.current_state]
          /\ poll' = [poll EXCEPT !.pc = IF should_process THEN "callback" ELSE "scan",
                                  !.fell = 0]
          /\ edges' = IF falling
                      THEN Append(edges, [color |-> b, src |-> "poll", fell |-> poll.fell,
                                          ts |-> poll.current_time,
                                          ok |-> should_process])
                      ELSE edges
    /\ gpio_lock' = "free"
    /\ UNCHANGED <<ledVars, coordVars, now, pin_level, edge_pins, irq_pending, irq, presses, fell_at>>

\* gpio.py:283: button_press_callback(color) returns; the pass goes on.
PollReturn ==
    /\ poll.pc = "callback"
    /\ poll' = [poll EXCEPT !.pc = "scan"]
    /\ UNCHANGED <<ledVars, coordVars, now, pin_level, edge_pins, button_states, last_button_press,
                   gpio_lock, irq_pending, irq, presses, fell_at, edges>>

\* gpio.py:285: the pass is over, time.sleep(0.02).
PollSleep ==
    /\ poll.pc = "scan"
    /\ poll.rest = <<>>
    /\ poll' = PollIdle
    /\ UNCHANGED <<ledVars, coordVars, now, pin_level, edge_pins, button_states, last_button_press,
                   gpio_lock, irq_pending, irq, presses, fell_at, edges>>

\* Time passes only while every thread sleeps, waits for an edge or runs the
\* button callback (the coordinator's handler, which publishes and waits for
\* the broker's acknowledgement): the statements in between take no time.
TickGpio ==
    /\ now < MaxTime
    /\ irq.pc \in {"idle", "callback"}
    /\ poll.pc \in {"sleep", "callback"}
    /\ now' = now + 1
    /\ UNCHANGED <<gpioVars, ledVars, coordVars>>

NextGpio ==
    \/ \E b \in Buttons : Press(b)
    \/ \E b \in Buttons : Release(b)
    \/ \E b \in Buttons : IrqSample(b)
    \/ IrqLock
    \/ IrqDebounce
    \/ IrqReturn
    \/ PollStart
    \/ PollLock
    \/ PollDebounce
    \/ PollReturn
    \/ PollSleep
    \/ TickGpio

\* ------------------------------------------------------------ GPIO LEDs

\* A set_led without the short-circuit on the cached state.
GpioSetLedNoCache(states, color, state, fault) ==
    IF color \notin DOMAIN states
    THEN [changed |-> FALSE, states |-> states, output |-> "none"]
    ELSE IF fault
    THEN [changed |-> FALSE, states |-> states, output |-> "raised"]
    ELSE [changed |-> TRUE, states |-> [states EXCEPT ![color] = state],
          output |-> "written"]

\* gpio.py:191-212, GPIOManager.set_led on the cache states of one manager:
\* what it returns, the cache it leaves and what becomes of GPIO.output
\* ("none": not called, "written", "raised": it threw and the cache is kept).
GpioSetLed(states, color, state, fault) ==
    IF color \notin DOMAIN states
    THEN [changed |-> FALSE, states |-> states, output |-> "none"]
    ELSE IF states[color] = state
    THEN [changed |-> FALSE, states |-> states, output |-> "none"]
    ELSE IF fault
    THEN [changed |-> FALSE, states |-> states, output |-> "raised"]
    ELSE [changed |-> TRUE, states |-> [states EXCEPT ![color] = state],
          output |-> "written"]

\* gpio.py:214-217, GPIOManager.get_led_state.
GpioGetLedState(states, color) ==
    IF color \in DOMAIN states THEN states[color] ELSE FALSE

\* gpio.py:183-188 and the coordinators' "start with all LEDs off".
InitLed ==
    /\ led_states = [n \in Nodes |-> [l \in LedPins(n) |-> FALSE]]
    /\ led_out = [l \in ServerLeds |-> FALSE]
    /\ calls = <<>>

\* One call of set_led(color, state) on the server's manager; fault says
\* whether GPIO.output would throw.
SetLedCall(color, state, fault) ==
    /\ Len(calls) < MaxCalls
    /\ LET r == GpioSetLed(led_states["server"], color, state, fault)
           pin == IF r.output = "written" THEN [led_out EXCEPT ![color] = state]
                  ELSE led_out
       IN /\ led_states' = [led_states EXCEPT !["server"] = r.states]
          /\ led_out' = pin
          /\ calls' = Append(calls,
                 [color |-> color, state |-> state, changed |-> r.changed,
                  output |-> r.output,
                  before |-> <<led_states["server"], led_out>>,
                  after |-> <<r.states, pin>>])
    /\ UNCHANGED <<now, gpioVars, coordVars>>

NextLed ==
    \E color \in LedNames, state \in BOOLEAN, fault \in BOOLEAN :
        SetLedCall(color, state, fault)

\* ------------------------------------------------------------ GPIO construction

\* The pin numbers a settings file may give.
Pins == 1..MaxPin

\* The settings of the node under study, the server: a pin for each button and
\* for each LED.
PinConfigs == [buttons : [Buttons -> Pins], leds : [ServerLeds -> Pins]]

\* A settings file without a collision.
DefaultPins ==
    [buttons |-> [b \in Buttons |-> IF b = "red" THEN 1 ELSE 2],
     leds |-> [l \in ServerLeds |-> IF l = "red" THEN 3 ELSE IF l = "green" THEN 4 ELSE 5]]

\* gpio.py:96, all_pins: the pins of the buttons, then those of the LEDs, each
\* in dict order.
AllPins(cfg) ==
    [i \in 1..Len(ButtonOrder) |-> cfg.buttons[ButtonOrder[i]]]
    \o [i \in 1..Len(LedOrder("server")) |-> cfg.leds[LedOrder("server")[i]]]

\* gpio.py:97-101: some pin of the list has occurred earlier in it.
PinConflict(all_pins) ==
    \E i, j \in DOMAIN all_pins : i < j /\ all_pins[i] = all_pins[j]

\* setup_gpio looking for collisions among the button pins only.
SetupGpioButtonsOnly(cfg) ==
    IF PinConflict([i \in 1..Len(ButtonOrder) |-> cfg.buttons[ButtonOrder[i]]])
    THEN [status |-> "failed", inputs |-> {}, outputs |-> {}]
    ELSE [status |-> "ready",
          inputs |-> {cfg.buttons[b] : b \in Buttons},
          outputs |-> {cfg.leds[l] : l \in ServerLeds}]

\* GPIOManager.setup_gpio (gpio.py:70-127) on the pin maps cfg: the conflict
\* check raises ValueError, which setup_gpio logs and raises again out of the
\* constructor, before _setup_button_pins and _setup_led_pins run; otherwise
\* every button pin is set up as an input and every LED pin as an output.
SetupGpio(cfg) ==
    IF PinConflict(AllPins(cfg))
    THEN [status |-> "failed", inputs |-> {}, outputs |-> {}]
    ELSE [status |-> "ready",
          inputs |-> {cfg.buttons[b] : b \in Buttons},
          outputs |-> {cfg.leds[l] : l \in ServerLeds}]

\* The threads that call set_led on one manager: the thread a button is
\* handled on and the network thread handling a message.
Writers == {"button", "network"}

WriterIdle == [pc |-> "idle", color |-> "none", state |-> FALSE, fault |-> FALSE,
               start |-> 0]

\* GPIOManager.__init__ has returned for a settings file without a collision,
\* and no thread is inside set_led.
InitIo ==
    /\ pin_config = DefaultPins
    /\ gpio_setup = SetupGpio(DefaultPins)
    /\ writer = [t \in Writers |-> WriterIdle]

\* GPIOManager(button_pins, led_pins) is constructed (base.py:43-47).
ConstructGpio ==
    /\ gpio_setup.status = "new"
    /\ gpio_setup' = SetupGpio(pin_config)
    /\ UNCHANGED <<now, gpioVars, ledVars, sessionVars, serverVars, historyVars,
                   connect_callback, heartbeat_running, running, stopVars,
                   pin_config, writer, mqtt_connected_event, handlerVars, state_sent>>

\* ------------------------------------------------------------ threads inside set_led

\* What every step of a thread inside set_led leaves alone.
WriterFrame ==
    UNCHANGED <<now, pin_level, edge_pins, button_states, last_button_press,
                irq_pending, irq, poll, presses, fell_at, edges,
                sessionVars, serverVars, historyVars,
                connect_callback, heartbeat_running, running, stopVars,
                pin_config, gpio_setup, mqtt_connected_event, handlerVars, state_sent>>

\* A set_led that enters its body whoever holds the lock.
GpioLockIgnored(holder) == TRUE

\* gpio.py:193, with self.gpio_lock: the body is entered when no thread
\* holds the lock.
GpioLockFree(holder) == holder = "free"

\* The record of a finished call: what was asked, what came back, the thread,
\* how many calls had finished when this one was made, and the cached state
\* the call compared with.
WriterDone(t, changed, output) ==
    [color |-> writer[t].color, state |-> writer[t].state, changed |-> changed,
     output |-> output, thread |-> t, start |-> writer[t].start,
     cached |-> GpioGetLedState(led_states["server"], writer[t].color)]

\* Thread t calls set_led(color, state) on the server's manager; fault says
\* whether GPIO.output would throw in this call.
WriterCall(t, color, state, fault) ==
    /\ writer[t].pc = "idle"
    /\ Len(calls) + Cardinality({u \in Writers : writer[u].pc # "idle"}) < MaxCalls
    /\ writer' = [writer EXCEPT ![t] =
           [pc |-> "waiting", color |-> color, state |-> state, fault |-> fault,
            start |-> Len(calls)]]
    /\ UNCHANGED <<gpio_lock, ledVars>>
    /\ WriterFrame

\* gpio.py:193, the lock is acquired.
WriterLock(t) ==
    /\ writer[t].pc = "waiting"
    /\ GpioLockFree(gpio_lock)
    /\ gpio_lock' = t
    /\ writer' = [writer EXCEPT ![t].pc = "locked"]
    /\ UNCHANGED ledVars
    /\ WriterFrame

\* gpio.py:194-199 and 210-212: the name is looked up and the cached state
\* compared; a name without a pin or a state already cached returns False
\* and releases the lock.
WriterCheck(t) ==
    /\ writer[t].pc = "locked"
    /\ IF \/ writer[t].color \notin DOMAIN led_states["server"]
          \/ led_states["server"][writer[t].color] = writer[t].state
       THEN /\ calls' = Append(calls, WriterDone(t, FALSE, "none"))
            /\ gpio_lock' = "free"
            /\ writer' = [writer EXCEPT ![t] = WriterIdle]
       ELSE /\ writer' = [writer EXCEPT ![t].pc = "output"]
            /\ UNCHANGED <<gpio_lock, calls>>
    /\ UNCHANGED <<led_states, led_out>>
    /\ WriterFrame

\* gpio.py:201-203 and 207-209: GPIO.output; when it throws the call logs,
\* returns False and releases the lock.
WriterOutput(t) ==
    /\ writer[t].pc = "output"
    /\ IF writer[t].fault
       THEN /\ calls' = Append(calls, WriterDone(t, FALSE, "raised"))
            /\ gpio_lock' = "free"
            /\ writer' = [writer EXCEPT ![t] = WriterIdle]
            /\ UNCHANGED led_out
       ELSE /\ led_out' = [led_out EXCEPT ![writer[t].color] = writer[t].state]
            /\ writer' = [writer EXCEPT ![t].pc = "store"]
            /\ UNCHANGED <<gpio_lock, calls>>
    /\ UNCHANGED led_states
    /\ WriterFrame

\* gpio.py:204-206: the cache is updated, the call returns True and releases
\* the lock.
WriterStore(t) ==
    /\ writer[t].pc = "store"
    /\ calls' = Append(calls, WriterDone(t, TRUE, "written"))
    /\ led_states' = [led_states EXCEPT !["server"][writer[t].color] = writer[t].state]
    /\ gpio_lock' = "free"
    /\ writer' = [writer EXCEPT ![t] = WriterIdle]
    /\ UNCHANGED led_out
    /\ WriterFrame

\* Two threads calling set_led on the server's manager, in any interleaving
\* of their steps, for two of its LEDs and a name it has no pin for.
NextLedThreads ==
    \E t \in Writers :
        \/ \E color \in {"red", "green", "yellow_client2"}, state \in BOOLEAN, fault \in BOOLEAN :
               WriterCall(t, color, state, fault)
        \/ WriterLock(t)
        \/ WriterCheck(t)
        \/ WriterOutput(t)
        \/ WriterStore(t)

\* ------------------------------------------------------------ topics, messages

\* A topic is the sequence of its levels, what topic.split('/') returns.
ServerStateTopic(color) ==
    IF color \in {YellowLedName(c) : c \in Clients}
    THEN <<"led-director", "server", "state", "leds", "yellow",
           CHOOSE c \in Clients : YellowLedName(c) = color>>
    ELSE <<"led-director", "server", "state", "leds", color>>

ClientStateTopic(c, color) == <<"led-director", "client", c, "state", "leds", color>>

EventTopic(n, color) ==
    IF n = "server" THEN <<"led-director", "server", "event", "buttons", color>>
    ELSE <<"led-director", "client", n, "event", "buttons", color>>

CmdTopic(c, led) == <<"led-director", "client", c, "cmd", "leds", led>>

HeartbeatTopic(c) == <<"led-director", "client", c, "heartbeat">>

\* The payload's timestamp field is never read by a receiver and is left out.
Msg(topic, payload, retain, qos) ==
    [topic |-> topic, payload |-> payload, retain |-> retain, qos |-> qos]

\* dict.get(key, default)
Get(payload, key, default) ==
    IF key \in DOMAIN payload THEN payload[key] ELSE default

\* _publish_led_state: the retained state message of one LED.
LedStateMsg(n, color, state) ==
    Msg(IF n = "server" THEN ServerStateTopic(color) ELSE ClientStateTopic(n, color),
        [state |-> state], TRUE, 1)

\* A subscription filter matches a topic level by level, "+" matching any level.
Matches(filter, topic) ==
    /\ Len(filter) = Len(topic)
    /\ \A i \in DOMAIN filter : filter[i] = "+" \/ filter[i] = topic[i]

\* setup_mqtt_subscriptions of each role.
RoleSubscriptions(n) ==
    IF n = "server"
    THEN {<<"led-director", "client", "+", "event", "buttons", "yellow">>,
          <<"led-director", "client", "+", "heartbeat">>}
    ELSE {<<"led-director", "client", n, "cmd", "leds", "+">>}

\* setup_mqtt_subscriptions of each role: the filters in the order subscribed.
SubscriptionOrder(n) ==
    IF n = "server"
    THEN <<<<"led-director", "client", "+", "event", "buttons", "yellow">>,
           <<"led-director", "client", "+", "heartbeat">>>>
    ELSE <<<<"led-director", "client", n, "cmd", "leds", "+">>>>

\* The buttons of a client (settings.client_buttons).
ClientButtons == {"yellow"}

\* ------------------------------------------------------------ MQTTManager, broker

\* MQTTManager.is_connected, and the test publish makes before sending.
IsConnected(n) == mqtt_connected[n] /\ link[n]

\* MQTTManager.publish for each message of a handler, in order: sent when the
\* session is connected, skipped otherwise. A handler runs in one step, so the
\* session is the same for all of its messages.
Published(n, msgs) == IF IsConnected(n) THEN msgs ELSE <<>>

\* The flag after a handler's publishes: in the split state publish attempts a
\* reconnect and clears the flag when that raises.
FlagAfterPublish(n, msgs, reconnect_raises) ==
    IF msgs # <<>> /\ mqtt_connected[n] /\ ~link[n] /\ reconnect_raises
    THEN [mqtt_connected EXCEPT ![n] = FALSE]
    ELSE mqtt_connected

\* The retained state messages the broker took from node n, `sent` in order:
\* per LED the state of the last one.
StateSent(n, sent) ==
    [state_sent EXCEPT ![n] =
        [l \in DOMAIN state_sent[n] |->
            LET at == {i \in DOMAIN sent :
                          sent[i].retain /\ sent[i].topic = LedStateMsg(n, l, TRUE).topic}
            IN IF at = {} THEN state_sent[n][l]
               ELSE IF sent[CHOOSE i \in at : \A j \in at : j <= i].payload.state
               THEN "on" ELSE "off"]]

\* What the bytes of a received payload are: "json", the text json.dumps made
\* of the payload record (mqtt.py:182), or bytes that are empty, only white
\* space, not UTF-8, or not JSON.
Bodies == {"json", "empty", "blank", "not_utf8", "not_json"}

\* _on_message handing every payload to the message callback as an empty
\* record.
OnMessageDecodesAll(body) == TRUE

\* _on_message (mqtt.py:141-162): whether the message reaches the message
\* callback. msg.payload.decode raises UnicodeDecodeError, an empty or blank
\* text returns early, json.loads raises JSONDecodeError; each is logged and
\* the callback is not called.
OnMessageDecodes(body) ==
    IF body = "not_utf8" THEN FALSE
    ELSE IF body \in {"empty", "blank"} THEN FALSE
    ELSE IF body = "not_json" THEN FALSE
    ELSE TRUE

\* The broker: a published message reaches every node whose connection holds
\* a matching subscription, and a retained one replaces the retained message
\* of its topic.
Deliveries(filters, msgs, at) ==
    LET wanted == SelectSeq(msgs, LAMBDA x : \E f \in filters : Matches(f, x.topic))
    IN [i \in 1..Len(wanted) |->
            [topic |-> wanted[i].topic, payload |-> wanted[i].payload,
             body |-> "json", arrived |-> at]]

\* The retained store after the broker has taken `msgs`. A retained message
\* on a topic that no role subscribes to can never be delivered to a node and
\* is not kept.
RECURSIVE Retain(_, _)
Retain(store, msgs) ==
    IF msgs = <<>> THEN store
    ELSE LET x == Head(msgs)
             kept == {r \in store : r.topic # x.topic}
             wanted == \E n \in Nodes : \E f \in RoleSubscriptions(n) : Matches(f, x.topic)
         IN Retain(IF x.retain /\ wanted
                   THEN kept \cup {[topic |-> x.topic, payload |-> x.payload]}
                   ELSE store,
                   Tail(msgs))

\* The retained messages a new subscription is answered with, in some order.
RECURSIVE Seeded(_, _, _)
Seeded(store, filters, at) ==
    LET matching == {r \in store : \E f \in filters : Matches(f, r.topic)}
    IN IF matching = {} THEN <<>>
       ELSE LET r == CHOOSE x \in matching : TRUE
            IN <<[topic |-> r.topic, payload |-> r.payload, body |-> "json",
                  arrived |-> at]>>
               \o Seeded(store \ {r}, filters, at)

\* The messages `sent` pass through the broker; `queues` are the inboxes as
\* the handler leaves them.
Broker(queues, sent) ==
    /\ inbox' = [m \in Nodes |->
                    IF link[m] THEN queues[m] \o Deliveries(subs[m], sent, now)
                    ELSE queues[m]]
    /\ retained' = Retain(retained, sent)

\* ------------------------------------------------------------ coordinator, both roles

\* One call a handler makes: subscribe(filter), publish(message),
\* set_led(color, state, publish_state), or the assignment of current_mode.
Call(name, arg) == [call |-> name, arg |-> arg]

\* The messages a handler passes to MQTTManager.publish, in program order.
Publishes(cs) ==
    LET p == SelectSeq(cs, LAMBDA x : x.call = "publish")
    IN [i \in 1..Len(p) |-> p[i].arg]

\* The filters a handler passes to MQTTManager.subscribe.
Subscribes(cs) == {cs[i].arg : i \in {j \in DOMAIN cs : cs[j].call = "subscribe"}}

\* set_led publishing whenever publishing is requested, changed or not.
BaseSetLedAlwaysPublish(n, states, color, state, publish_state, fault) ==
    LET r == GpioSetLed(states, color, state, fault)
    IN [states |-> r.states, changed |-> r.changed,
        msgs |-> IF publish_state THEN <<LedStateMsg(n, color, state)>> ELSE <<>>]

\* LEDDirectorBase.set_led(color, state, publish_state) on the LED cache
\* `states` of node n: the cache afterwards, what the GPIO manager returned
\* and the state message passed to publish; fault says whether GPIO.output
\* would throw.
BaseSetLed(n, states, color, state, publish_state, fault) ==
    LET r == GpioSetLed(states, color, state, fault)
    IN [states |-> r.states, changed |-> r.changed,
        msgs |-> IF r.changed /\ publish_state
                 THEN <<LedStateMsg(n, color, state)>> ELSE <<>>]

\* LEDDirectorBase.set_led applied to a list of (color, state, publish_state)
\* in order: the LED cache afterwards, the state messages to publish, and the
\* calls made, each set_led followed by the publish it makes.
RECURSIVE SetLeds(_, _, _)
SetLeds(n, states, sets) ==
    IF sets = <<>> THEN [states |-> states, msgs |-> <<>>, calls |-> <<>>]
    ELSE LET s == Head(sets)
             r == BaseSetLed(n, states, s.color, s.state, s.publish_state, FALSE)
             rest == SetLeds(n, r.states, Tail(sets))
         IN [states |-> rest.states,
             msgs |-> r.msgs \o rest.msgs,
             calls |-> <<Call("set_led", s)>>
                       \o [i \in 1..Len(r.msgs) |-> Call("publish", r.msgs[i])]
                       \o rest.calls]

\* republish_led_states skipping the LEDs that are off.
RepublishLedStatesOnOnly(n, states) ==
    LET lit == SelectSeq(LedOrder(n), LAMBDA color : GpioGetLedState(states, color))
    IN [i \in 1..Len(lit) |-> LedStateMsg(n, lit[i], TRUE)]

\* LEDDirectorBase.republish_led_states
RepublishLedStates(n, states) ==
    [i \in 1..Len(LedOrder(n)) |->
        LedStateMsg(n, LedOrder(n)[i], GpioGetLedState(states, LedOrder(n)[i]))]

\* on_mqtt_connected republishing before it subscribes.
OnMqttConnectedRepublishFirst(n, states) ==
    LET r == RepublishLedStates(n, states)
    IN [i \in 1..Len(r) |-> Call("publish", r[i])]
       \o [i \in 1..Len(SubscriptionOrder(n)) |-> Call("subscribe", SubscriptionOrder(n)[i])]

\* LEDDirectorBase.on_mqtt_connected: setup_mqtt_subscriptions, then
\* republish_led_states.
OnMqttConnected(n, states) ==
    LET r == RepublishLedStates(n, states)
    IN [i \in 1..Len(SubscriptionOrder(n)) |-> Call("subscribe", SubscriptionOrder(n)[i])]
       \o [i \in 1..Len(r) |-> Call("publish", r[i])]

\* handle_button_press running the button's logic before it publishes the event.
HandleButtonPressLogicFirst(n, color, process) ==
    process \o <<Call("publish", Msg(EventTopic(n, color), [pressed |-> TRUE], FALSE, 1))>>

\* LEDDirectorBase.handle_button_press: the event is published, then
\* process_button_press, whose calls are `process`, runs.
HandleButtonPress(n, color, process) ==
    <<Call("publish", Msg(EventTopic(n, color), [pressed |-> TRUE], FALSE, 1))>> \o process

\* What a reconnect attempted by publish may do: it is attempted only in the
\* split state, the flag set and the transport not connected.
ReconnectOutcomes(n) == IF mqtt_connected[n] /\ ~link[n] THEN BOOLEAN ELSE {FALSE}

\* Whether a handler publishing `msgs` calls mqtt_client.reconnect()
\* (mqtt.py:198-201): its first publish does, in the split state.
ReconnectAttempted(n, msgs) == msgs # <<>> /\ mqtt_connected[n] /\ ~link[n]

NoOp == [name |-> "none", node |-> "none", arg |-> "none", mode |-> "idle",
         connected |-> FALSE, arrived |-> 0, changed |-> FALSE,
         reconnect |-> FALSE]

InitSession ==
    /\ mqtt_connected = [n \in Nodes |-> FALSE]
    /\ mqtt_connected_event = [n \in Nodes |-> FALSE]
    /\ link = [n \in Nodes |-> FALSE]
    /\ disc_pending = [n \in Nodes |-> FALSE]
    /\ subs = [n \in Nodes |-> {}]
    /\ inbox = [n \in Nodes |-> <<>>]
    /\ net_busy = {}
    /\ retained = {}

\* MQTTManager.set_connect_callback, called by LEDDirectorBase.__init__
\* (base.py:59) after MQTTManager.__init__ has started the network thread
\* (mqtt.py:102-105).
SetConnectCallback(n) ==
    /\ n \notin connect_callback
    /\ connect_callback' = connect_callback \cup {n}
    /\ out' = <<>>
    /\ op' = NoOp
    /\ trace' = <<>>
    /\ UNCHANGED <<now, gpioVars, ledVars, sessionVars, serverVars,
                   yellow_accepted_at, heartbeat_at, commanded, beats,
                   heartbeat_running, running, stopVars, ioVars,
                   mqtt_connected_event, handlerVars, state_sent>>

\* The broker acknowledges a connection: _on_connect with rc = 0 sets the flag
\* and the Event behind wait_for_connection and, when the attribute connect_callback exists (mqtt.py:119), runs
\* on_mqtt_connected, which subscribes and republishes every LED. The broker
\* answers a subscription with the retained messages that match it.
ConnAck(n) ==
    /\ ~link[n] /\ ~disc_pending[n] /\ n \notin net_busy
    /\ link' = [link EXCEPT ![n] = TRUE]
    /\ mqtt_connected' = [mqtt_connected EXCEPT ![n] = TRUE]
    /\ mqtt_connected_event' = [mqtt_connected_event EXCEPT ![n] = TRUE]
    /\ trace' = IF n \in connect_callback
                THEN OnMqttConnected(n, led_states[n]) ELSE <<>>
    /\ subs' = [subs EXCEPT ![n] = Subscribes(trace')]
    /\ out' = IF mqtt_connected'[n] /\ link'[n] THEN Publishes(trace') ELSE <<>>
    /\ retained' = Retain(retained, out')
    /\ state_sent' = StateSent(n, out')
    /\ inbox' = [m \in Nodes |->
           IF m = n
           THEN Seeded(retained, subs'[n], now) \o Deliveries(subs'[n], out', now)
           ELSE IF link[m] THEN inbox[m] \o Deliveries(subs[m], out', now)
           ELSE inbox[m]]
    /\ net_busy' = IF n \in connect_callback THEN net_busy \cup {n} ELSE net_busy
    /\ op' = [NoOp EXCEPT !.name = "connect", !.node = n, !.connected = TRUE,
                          !.mode = current_mode]
    /\ UNCHANGED <<now, gpioVars, connect_callback, heartbeat_running, running,
                   stopVars, ioVars, handlerVars, beats, ledVars, disc_pending, serverVars,
                   yellow_accepted_at, heartbeat_at, commanded>>

\* The broker refuses the connection: _on_connect with rc # 0.
ConnRefused(n) ==
    /\ ~link[n] /\ ~disc_pending[n] /\ n \notin net_busy
    /\ mqtt_connected' = [mqtt_connected EXCEPT ![n] = FALSE]
    /\ out' = <<>>
    /\ op' = NoOp
    /\ trace' = <<>>
    /\ UNCHANGED <<now, gpioVars, lifeVars, beats, ledVars, link, disc_pending, subs,
                   inbox, net_busy, retained, serverVars,
                   yellow_accepted_at, heartbeat_at, commanded>>

\* The transport loses the link. The session is a clean session (mqtt.py:70-76):
\* the broker forgets the subscriptions and whatever it had not yet delivered.
LinkLoss(n) ==
    /\ link[n]
    /\ link' = [link EXCEPT ![n] = FALSE]
    /\ disc_pending' = [disc_pending EXCEPT ![n] = TRUE]
    /\ subs' = [subs EXCEPT ![n] = {}]
    /\ inbox' = [inbox EXCEPT ![n] = <<>>]
    /\ out' = <<>>
    /\ op' = NoOp
    /\ trace' = <<>>
    /\ UNCHANGED <<now, gpioVars, lifeVars, beats, ledVars, mqtt_connected, net_busy,
                   retained, serverVars,
                   yellow_accepted_at, heartbeat_at, commanded>>

\* The result codes the transport passes to _on_disconnect after it lost the
\* link: never MQTT_ERR_SUCCESS, which it passes only after a disconnect the
\* program asked for, and the program asks for one only once the network
\* loop is stopped (mqtt.py:217-218).
DisconnectCodes == {"conn_lost"}

\* mqtt.py:132, whether _on_disconnect calls client.reconnect().
OnDisconnectReconnects(rc, is_connected) == rc # "success" /\ ~is_connected

\* _on_disconnect: the flag is cleared (mqtt.py:128), then the reconnect is
\* attempted or not (mqtt.py:132-137); an exception of the attempt is caught.
OnDisconnect(n) ==
    /\ disc_pending[n] /\ n \notin net_busy
    /\ disc_pending' = [disc_pending EXCEPT ![n] = FALSE]
    /\ mqtt_connected' = [mqtt_connected EXCEPT ![n] = FALSE]
    /\ out' = <<>>
    /\ \E rc \in DisconnectCodes :
          op' = [NoOp EXCEPT !.name = "disconnect", !.node = n,
                             !.reconnect = OnDisconnectReconnects(rc, link[n])]
    /\ trace' = <<>>
    /\ UNCHANGED <<now, gpioVars, lifeVars, beats, ledVars, link, subs, inbox, net_busy,
                   retained, serverVars,
                   yellow_accepted_at, heartbeat_at, commanded>>

\* The callback running on the network thread returns, once the publishes it
\* made have waited for their completion (mqtt.py:189-191, up to 1 s each).
CallbackReturn(n) ==
    /\ n \in net_busy
    /\ net_busy' = net_busy \ {n}
    /\ out' = <<>>
    /\ op' = NoOp
    /\ trace' = <<>>
    /\ UNCHANGED <<now, gpioVars, lifeVars, beats, ledVars, mqtt_connected, link, disc_pending, subs,
                   inbox, retained, serverVars,
                   yellow_accepted_at, heartbeat_at, commanded>>

\* ------------------------------------------------------------ LEDDirectorServer

\* server.py:84
CooldownActive(current_time, last_press) == current_time - last_press < BUTTON_COOLDOWN

\* server.py:91 accepting peers in every mode but GREEN_ACTIVE.
YellowAllowedUnlessGreen(mode) == mode # "green_active"

\* server.py:91
YellowAllowed(mode) == mode = "red_active"

\* broadcast_to_clients reaching only the first client of the roster.
BroadcastToFirstClient(led, state) ==
    <<Msg(CmdTopic(ClientOrder[1], led), [state |-> state], FALSE, 1)>>

\* broadcast_to_clients publishing its commands retained.
BroadcastToClientsRetained(led, state) ==
    [i \in 1..Len(ClientOrder) |->
        Msg(CmdTopic(ClientOrder[i], led), [state |-> state], TRUE, 1)]

\* broadcast_to_clients for the subtopic cmd/leds/<led>
BroadcastToClients(led, state) ==
    [i \in 1..Len(ClientOrder) |->
        Msg(CmdTopic(ClientOrder[i], led), [state |-> state], FALSE, 1)]

LedCall(color, state) == [color |-> color, state |-> state, publish_state |-> TRUE]

\* The loop over client_yellow_states of the red and green presses: the
\* set_led calls for the yellow LEDs the server has.
YellowLedsOff ==
    LET have == SelectSeq(ClientOrder, LAMBDA c : YellowLedName(c) \in ServerLeds)
    IN [i \in 1..Len(have) |-> LedCall(YellowLedName(have[i]), FALSE)]

\* The reset of client_yellow_states leaving every state as it is.
AllYellowKept == client_yellow_states

\* server.py:303-304, :323-324 and :345-346: every per-client state reset.
AllYellowOff == [c \in Clients |-> FALSE]

\* process_button_press returning to IDLE on a button it has no branch for.
ProcessButtonPressResets(color) ==
    IF color = "red"
    THEN [mode |-> "red_active", yellow |-> AllYellowOff,
          sets |-> <<LedCall("red", TRUE), LedCall("green", FALSE)>> \o YellowLedsOff,
          cmds |-> BroadcastToClients("red", TRUE) \o BroadcastToClients("green", FALSE)
                   \o BroadcastToClients("yellow", FALSE)]
    ELSE IF color = "green"
    THEN [mode |-> "green_active", yellow |-> AllYellowOff,
          sets |-> <<LedCall("green", TRUE), LedCall("red", FALSE)>> \o YellowLedsOff,
          cmds |-> BroadcastToClients("green", TRUE) \o BroadcastToClients("red", FALSE)
                   \o BroadcastToClients("yellow", FALSE)]
    ELSE IF color = "clear"
    THEN [mode |-> "idle", yellow |-> AllYellowOff,
          sets |-> [i \in 1..Len(LedOrder("server")) |-> LedCall(LedOrder("server")[i], FALSE)],
          cmds |-> BroadcastToClients("red", FALSE) \o BroadcastToClients("green", FALSE)
                   \o BroadcastToClients("yellow", FALSE)]
    ELSE [mode |-> "idle", yellow |-> client_yellow_states,
          sets |-> <<>>, cmds |-> <<>>]

\* LEDDirectorServer.process_button_press: the mode and per-client states it
\* leaves, the set_led calls it makes and the commands it broadcasts, in order.
ProcessButtonPress(color) ==
    IF color = "red"
    THEN [mode |-> "red_active", yellow |-> AllYellowOff,
          sets |-> <<LedCall("red", TRUE), LedCall("green", FALSE)>> \o YellowLedsOff,
          cmds |-> BroadcastToClients("red", TRUE) \o BroadcastToClients("green", FALSE)
                   \o BroadcastToClients("yellow", FALSE)]
    ELSE IF color = "green"
    THEN [mode |-> "green_active", yellow |-> AllYellowOff,
          sets |-> <<LedCall("green", TRUE), LedCall("red", FALSE)>> \o YellowLedsOff,
          cmds |-> BroadcastToClients("green", TRUE) \o BroadcastToClients("red", FALSE)
                   \o BroadcastToClients("yellow", FALSE)]
    ELSE IF color = "clear"
    THEN [mode |-> "idle", yellow |-> AllYellowOff,
          sets |-> [i \in 1..Len(LedOrder("server")) |-> LedCall(LedOrder("server")[i], FALSE)],
          cmds |-> BroadcastToClients("red", FALSE) \o BroadcastToClients("green", FALSE)
                   \o BroadcastToClients("yellow", FALSE)]
    ELSE [mode |-> current_mode, yellow |-> client_yellow_states,
          sets |-> <<>>, cmds |-> <<>>]

\* handle_client_yellow_press sending the new yellow state to every client.
HandleClientYellowPressBroadcast(client_id) ==
    LET current_time == now
        ignored == [last_press |-> client_last_press, yellow |-> client_yellow_states,
                    sets |-> <<>>, cmds |-> <<>>, toggled |-> FALSE]
    IN IF client_id \notin DOMAIN client_yellow_states THEN ignored
       ELSE IF CooldownActive(current_time, client_last_press[client_id]) THEN ignored
       ELSE LET stamped == [client_last_press EXCEPT ![client_id] = current_time]
            IN IF YellowAllowed(current_mode)
               THEN LET new_state == ~client_yellow_states[client_id]
                        yellow_led_name == YellowLedName(client_id)
                    IN [last_press |-> stamped,
                        yellow |-> [client_yellow_states EXCEPT ![client_id] = new_state],
                        sets |-> IF yellow_led_name \in ServerLeds
                                 THEN <<LedCall(yellow_led_name, new_state)>> ELSE <<>>,
                        cmds |-> BroadcastToClients("yellow", new_state),
                        toggled |-> TRUE]
               ELSE [ignored EXCEPT !.last_press = stamped]

\* LEDDirectorServer.handle_client_yellow_press
HandleClientYellowPress(client_id) ==
    LET current_time == now
        ignored == [last_press |-> client_last_press, yellow |-> client_yellow_states,
                    sets |-> <<>>, cmds |-> <<>>, toggled |-> FALSE]
    IN IF client_id \notin DOMAIN client_yellow_states THEN ignored
       ELSE IF CooldownActive(current_time, client_last_press[client_id]) THEN ignored
       ELSE LET stamped == [client_last_press EXCEPT ![client_id] = current_time]
            IN IF YellowAllowed(current_mode)
               THEN LET new_state == ~client_yellow_states[client_id]
                        yellow_led_name == YellowLedName(client_id)
                    IN [last_press |-> stamped,
                        yellow |-> [client_yellow_states EXCEPT ![client_id] = new_state],
                        sets |-> IF yellow_led_name \in ServerLeds
                                 THEN <<LedCall(yellow_led_name, new_state)>> ELSE <<>>,
                        cmds |-> <<Msg(CmdTopic(client_id, "yellow"),
                                       [state |-> new_state], FALSE, 1)>>,
                        toggled |-> TRUE]
               ELSE [ignored EXCEPT !.last_press = stamped]

\* is_client_connected with the timeout itself counted as expired.
IsClientConnectedStrict(client_id) ==
    /\ client_id \in DOMAIN connected_clients
    /\ now - connected_clients[client_id] < CLIENT_TIMEOUT

\* LEDDirectorServer.is_client_connected
IsClientConnected(client_id) ==
    /\ client_id \in DOMAIN connected_clients
    /\ now - connected_clients[client_id] <= CLIENT_TIMEOUT

\* LEDDirectorServer.handle_client_heartbeat
HandleClientHeartbeat(client_id) ==
    [id \in DOMAIN connected_clients \cup {client_id} |->
        IF id = client_id THEN now ELSE connected_clients[id]]

\* LEDDirectorServer.handle_mqtt_message: the handler a message is passed to.
ServerDispatch(parts, payload) ==
    IF Len(parts) >= 3 /\ parts[1] = "led-director" /\ parts[2] = "client"
    THEN IF Len(parts) = 4 /\ parts[4] = "heartbeat"
         THEN [handler |-> "heartbeat", client_id |-> parts[3]]
         ELSE IF /\ Len(parts) = 6
                 /\ parts[4] = "event" /\ parts[5] = "buttons" /\ parts[6] = "yellow"
                 /\ Get(payload, "pressed", FALSE)
         THEN [handler |-> "yellow", client_id |-> parts[3]]
         ELSE [handler |-> "none", client_id |-> parts[3]]
    ELSE [handler |-> "none", client_id |-> "none"]

InitServer ==
    /\ current_mode = "idle"
    /\ client_yellow_states = [c \in Clients |-> FALSE]
    /\ client_last_press = [c \in Clients |-> 0]
    /\ connected_clients = <<>>

InitHistory ==
    /\ out = <<>>
    /\ op = NoOp
    /\ yellow_accepted_at = [c \in Clients |-> 0]
    /\ heartbeat_at = [id \in Ids |-> -1]
    /\ commanded = [red |-> FALSE, green |-> FALSE, yellow |-> FALSE,
                    broadcast |-> FALSE]
    /\ trace = <<>>
    /\ beats = [c \in Clients |-> [ticks |-> 0, connected |-> 0, sent |-> 0]]

\* client.py:22-24 and base.py:147: no thread has been started.
InitThreads ==
    /\ heartbeat_running = [c \in Clients |-> FALSE]
    /\ running = {}
    /\ todo = [ctx \in Contexts |-> <<>>]
    /\ coord_led = [l \in ServerLeds |-> FALSE]

\* base.py:18 and :147: the shutdown Event is clear, run() has not been
\* entered, nothing has been released.
InitShutdown ==
    /\ shutdown_flag = FALSE
    /\ main = "new"
    /\ released = {}

\* The calls of process_button_press on the server, given what it decided (p)
\* and what its set_led calls did (r).
ServerProcessCalls(color, p, r) ==
    IF color \in {"red", "green", "clear"}
    THEN <<Call("mode", p.mode)>> \o r.calls
         \o [i \in 1..Len(p.cmds) |-> Call("publish", p.cmds[i])]
    ELSE <<>>

\* A button of the server is pressed and accepted: handle_button_press
\* publishes the event, then process_button_press runs.
ServerButton(color, reconnect_raises) ==
    /\ \A c \in Clients : Len(inbox[c]) + 3 <= MaxBacklog
    /\ \E p \in {ProcessButtonPress(color)} :
       \E r \in {SetLeds("server", led_states["server"], p.sets)} :
       \E t \in {HandleButtonPress("server", color, ServerProcessCalls(color, p, r))} :
       \E msgs \in {Publishes(t)} :
          /\ trace' = t
          /\ current_mode' = p.mode
          /\ client_yellow_states' = p.yellow
          /\ led_states' = [led_states EXCEPT !["server"] = r.states]
          /\ led_out' = r.states
          /\ out' = Published("server", msgs)
          /\ state_sent' = StateSent("server", out')
          /\ Broker(inbox, out')
          /\ mqtt_connected' = FlagAfterPublish("server", msgs, reconnect_raises)
    /\ commanded' = IF color \in {"red", "green", "clear"}
                    THEN [red |-> color = "red", green |-> color = "green",
                          yellow |-> FALSE, broadcast |-> IsConnected("server")]
                    ELSE commanded
    /\ op' = [NoOp EXCEPT !.name = "button", !.node = "server", !.arg = color,
                          !.mode = current_mode, !.connected = IsConnected("server"),
                          !.reconnect = mqtt_connected["server"] /\ ~link["server"]]
    /\ UNCHANGED <<now, gpioVars, threadVars, beats, calls, link, disc_pending, subs,
                   net_busy, client_last_press, connected_clients,
                   yellow_accepted_at, heartbeat_at>>

\* _on_message of the server for the oldest message received: handle_mqtt_message.
ServerHandleMessage(reconnect_raises) ==
    /\ inbox["server"] # <<>> /\ "server" \notin net_busy
    /\ \E m \in {Head(inbox["server"])} :
       \E d \in {IF OnMessageDecodes(m.body) THEN ServerDispatch(m.topic, m.payload)
                 ELSE [handler |-> "dropped", client_id |-> "none"]} :
       \E y \in {IF d.handler = "yellow" THEN HandleClientYellowPress(d.client_id)
                 ELSE [last_press |-> client_last_press, yellow |-> client_yellow_states,
                       sets |-> <<>>, cmds |-> <<>>, toggled |-> FALSE]} :
       \E r \in {SetLeds("server", led_states["server"], y.sets)} :
          /\ client_last_press' = y.last_press
          /\ client_yellow_states' = y.yellow
          /\ led_states' = [led_states EXCEPT !["server"] = r.states]
          /\ led_out' = r.states
          /\ connected_clients' = IF d.handler = "heartbeat"
                                  THEN HandleClientHeartbeat(d.client_id)
                                  ELSE connected_clients
          /\ heartbeat_at' = IF d.handler = "heartbeat" /\ d.client_id \in Ids
                             THEN [heartbeat_at EXCEPT ![d.client_id] = now]
                             ELSE heartbeat_at
          /\ yellow_accepted_at' = IF y.toggled
                                   THEN [yellow_accepted_at EXCEPT ![d.client_id] = m.arrived]
                                   ELSE yellow_accepted_at
          /\ out' = Published("server", r.msgs \o y.cmds)
          /\ state_sent' = StateSent("server", out')
          /\ Broker([inbox EXCEPT !["server"] = Tail(@)], out')
          /\ mqtt_connected' = FlagAfterPublish("server", r.msgs \o y.cmds, reconnect_raises)
          /\ net_busy' = IF out' # <<>> THEN net_busy \cup {"server"} ELSE net_busy
          /\ trace' = <<>>
          /\ op' = [NoOp EXCEPT !.name = d.handler, !.node = "server",
                                !.arg = d.client_id, !.mode = current_mode,
                                !.connected = IsConnected("server"),
                                !.arrived = m.arrived]
    /\ UNCHANGED <<now, gpioVars, threadVars, beats, calls, link, disc_pending, subs,
                   current_mode, commanded>>

\* A peer's yellow button event (base.py:99-108, published by the peer's
\* handle_button_press) reaches the server through its subscription.
DeliverYellow(id) ==
    /\ link["server"]
    /\ \E f \in subs["server"] : Matches(f, EventTopic(id, "yellow"))
    /\ Len(inbox["server"]) < MaxInbox
    /\ inbox' = [inbox EXCEPT !["server"] =
           Append(@, [topic |-> EventTopic(id, "yellow"),
                      payload |-> [pressed |-> TRUE], body |-> "json",
                      arrived |-> now])]
    /\ out' = <<>>
    /\ op' = NoOp
    /\ trace' = <<>>
    /\ UNCHANGED <<now, gpioVars, lifeVars, beats, ledVars, mqtt_connected, link, disc_pending, subs,
                   net_busy, retained, serverVars,
                   yellow_accepted_at, heartbeat_at, commanded>>

\* A peer's heartbeat (client.py:83-90) reaches the server.
DeliverHeartbeat(id) ==
    /\ link["server"]
    /\ \E f \in subs["server"] : Matches(f, HeartbeatTopic(id))
    /\ Len(inbox["server"]) < MaxInbox
    /\ inbox' = [inbox EXCEPT !["server"] =
           Append(@, [topic |-> HeartbeatTopic(id),
                      payload |-> [status |-> "alive"], body |-> "json",
                      arrived |-> now])]
    /\ out' = <<>>
    /\ op' = NoOp
    /\ trace' = <<>>
    /\ UNCHANGED <<now, gpioVars, lifeVars, beats, ledVars, mqtt_connected, link, disc_pending, subs,
                   net_busy, retained, serverVars,
                   yellow_accepted_at, heartbeat_at, commanded>>

\* Some publisher sends, on a topic node n is subscribed to, a payload that
\* is empty or cannot be decoded.
DeliverMalformed(n, topic, body) ==
    /\ link[n]
    /\ \E f \in subs[n] : Matches(f, topic)
    /\ Len(inbox[n]) < MaxInbox
    /\ inbox' = [inbox EXCEPT ![n] =
           Append(@, [topic |-> topic, payload |-> <<>>, body |-> body,
                      arrived |-> now])]
    /\ out' = <<>>
    /\ op' = NoOp
    /\ trace' = <<>>
    /\ UNCHANGED <<now, gpioVars, lifeVars, beats, ledVars, mqtt_connected, link, disc_pending, subs,
                   net_busy, retained, serverVars,
                   yellow_accepted_at, heartbeat_at, commanded>>

\* LEDDirectorServer.cleanup_old_clients
CleanupOldClients ==
    /\ LET to_remove == {id \in DOMAIN connected_clients :
                            now - connected_clients[id] > CLIENT_TIMEOUT * 2}
       IN /\ to_remove # {}
          /\ connected_clients' =
                 [id \in DOMAIN connected_clients \ to_remove |-> connected_clients[id]]
    /\ out' = <<>>
    /\ op' = NoOp
    /\ trace' = <<>>
    /\ UNCHANGED <<now, gpioVars, lifeVars, beats, ledVars, sessionVars, current_mode,
                   client_yellow_states, client_last_press,
                   yellow_accepted_at, heartbeat_at, commanded>>

\* The server's network thread runs _on_message for a received message as
\* soon as it is not inside a callback.
DispatchDue == inbox["server"] # <<>> /\ "server" \notin net_busy

\* 100 ms pass.
TickServer ==
    /\ now < MaxTimeServer
    /\ ~DispatchDue
    /\ now' = now + 1
    /\ out' = <<>>
    /\ op' = NoOp
    /\ trace' = <<>>
    /\ UNCHANGED <<gpioVars, lifeVars, beats, ledVars, sessionVars, serverVars,
                   yellow_accepted_at, heartbeat_at, commanded>>

\* One heartbeat interval passes.
TickPresence ==
    /\ ~DispatchDue
    /\ now + HEARTBEAT_INTERVAL <= BUTTON_COOLDOWN + MaxIntervals * HEARTBEAT_INTERVAL
    /\ now' = now + HEARTBEAT_INTERVAL
    /\ out' = <<>>
    /\ op' = NoOp
    /\ trace' = <<>>
    /\ UNCHANGED <<gpioVars, lifeVars, beats, ledVars, sessionVars, serverVars,
                   yellow_accepted_at, heartbeat_at, commanded>>

\* ------------------------------------------------------------ LEDDirectorClient

\* client.py:54 with publish_state left at its default.
ClientApplyEcho(c, states, color, state) ==
    SetLeds(c, states, <<[color |-> color, state |-> state, publish_state |-> TRUE]>>)

\* client.py:54, set_led(color, state, publish_state=False)
ClientApply(c, states, color, state) ==
    SetLeds(c, states, <<[color |-> color, state |-> state, publish_state |-> FALSE]>>)

\* LEDDirectorClient.handle_mqtt_message: whether the message is an LED command.
ClientIsCommand(c, parts) ==
    /\ Len(parts) = 6 /\ parts[1] = "led-director" /\ parts[2] = "client" /\ parts[3] = c
    /\ parts[4] = "cmd" /\ parts[5] = "leds"

\* _on_message of a client for the oldest message received.
ClientHandleMessage(c, reconnect_raises) ==
    /\ inbox[c] # <<>> /\ c \notin net_busy
    /\ \E m \in {Head(inbox[c])} :
       \E cmd \in {OnMessageDecodes(m.body) /\ ClientIsCommand(c, m.topic)} :
       \E r \in {IF cmd
                 THEN ClientApply(c, led_states[c], m.topic[6],
                                  Get(m.payload, "state", FALSE))
                 ELSE [states |-> led_states[c], msgs |-> <<>>]} :
          /\ led_states' = [led_states EXCEPT ![c] = r.states]
          /\ out' = Published(c, r.msgs)
          /\ state_sent' = StateSent(c, out')
          /\ Broker([inbox EXCEPT ![c] = Tail(@)], out')
          /\ mqtt_connected' = FlagAfterPublish(c, r.msgs, reconnect_raises)
          /\ net_busy' = IF out' # <<>> THEN net_busy \cup {c} ELSE net_busy
          /\ trace' = <<>>
          /\ op' = [NoOp EXCEPT !.name = IF cmd THEN "command"
                                         ELSE IF OnMessageDecodes(m.body) THEN "none"
                                         ELSE "dropped",
                                !.node = c, !.arg = m.topic[Len(m.topic)],
                                !.mode = current_mode, !.connected = IsConnected(c),
                                !.changed = r.states # led_states[c]]
    /\ UNCHANGED <<now, gpioVars, threadVars, beats, led_out, calls, link, disc_pending, subs,
                   serverVars,
                   yellow_accepted_at, heartbeat_at, commanded>>

\* One call of the coordinator's set_led(color, state, publish_state) on node n.
CoordSetLed(n, color, state, publish_state, fault, reconnect_raises) ==
    /\ \E r \in {BaseSetLed(n, led_states[n], color, state, publish_state, fault)} :
          /\ led_states' = [led_states EXCEPT ![n] = r.states]
          /\ led_out' = IF n = "server" THEN r.states ELSE led_out
          /\ trace' = <<Call("set_led", [color |-> color, state |-> state,
                                         publish_state |-> publish_state])>>
                       \o [i \in 1..Len(r.msgs) |-> Call("publish", r.msgs[i])]
          /\ out' = Published(n, r.msgs)
          /\ state_sent' = StateSent(n, out')
          /\ Broker(inbox, out')
          /\ mqtt_connected' = FlagAfterPublish(n, r.msgs, reconnect_raises)
          /\ op' = [NoOp EXCEPT !.name = "set_led", !.node = n, !.arg = color,
                                !.mode = current_mode, !.connected = IsConnected(n),
                                !.changed = r.changed,
                                !.reconnect = ReconnectAttempted(n, r.msgs)]
    /\ UNCHANGED <<now, gpioVars, threadVars, beats, calls, link, disc_pending, subs,
                   net_busy, serverVars, yellow_accepted_at, heartbeat_at, commanded>>

\* client.py:84-90, the heartbeat message.
HeartbeatMsg(c) == Msg(HeartbeatTopic(c), [status |-> "alive"], FALSE, 1)

\* A heartbeat worker that keeps the heartbeats of the ticks it skipped and
\* sends them at the next tick at which the session is connected; b counts
\* the ticks taken and the heartbeats sent so far.
HeartbeatTickQueued(c, connected, b) ==
    IF connected THEN [i \in 1..(b.ticks + 1 - b.sent) |-> HeartbeatMsg(c)] ELSE <<>>

\* client.py:83-93, one pass of _heartbeat_worker: the messages it passes to
\* publish, given what is_connected() returned.
HeartbeatTick(c, connected, b) ==
    IF connected THEN <<HeartbeatMsg(c)>> ELSE <<>>

\* LEDDirectorBase.run of a client: wait_for_connection and is_connected()
\* succeed, the button thread is started and the main loop entered. It starts
\* no other thread.
Run(c) ==
    /\ c \notin running
    /\ main = "new"
    /\ mqtt_connected_event[c]
    /\ IsConnected(c)
    /\ running' = running \cup {c}
    /\ main' = "loop"
    /\ out' = <<>>
    /\ op' = NoOp
    /\ trace' = <<>>
    /\ UNCHANGED <<now, gpioVars, ledVars, sessionVars, serverVars,
                   yellow_accepted_at, heartbeat_at, commanded, beats,
                   connect_callback, heartbeat_running, shutdown_flag, released,
                   ioVars, mqtt_connected_event, handlerVars, state_sent>>

\* LEDDirectorBase.run returning before its main loop: wait_for_connection
\* times out with the event not set (base.py:162-164), or is_connected() is
\* false although the event is set (base.py:167-169). Both are plain returns
\* placed before the try statement whose finally clause calls cleanup()
\* (base.py:186-192), and main() does nothing after run() (__main__.py:95).
RunReturnsEarly(n) ==
    /\ n \notin running
    /\ main = "new"
    /\ ~mqtt_connected_event[n] \/ ~IsConnected(n)
    /\ main' = "returned"
    /\ out' = <<>>
    /\ op' = [NoOp EXCEPT !.name = "run", !.node = n,
                          !.changed = mqtt_connected_event[n],
                          !.connected = IsConnected(n)]
    /\ trace' = <<>>
    /\ UNCHANGED <<now, gpioVars, ledVars, sessionVars, serverVars,
                   yellow_accepted_at, heartbeat_at, commanded, beats,
                   connect_callback, heartbeat_running, running, shutdown_flag, released,
                   ioVars, mqtt_connected_event, handlerVars, state_sent>>

\* MQTTManager.wait_for_connection returns (mqtt.py:206-208, called at
\* base.py:162): Event.wait gives True as soon as the event is set, and False
\* at the timeout when it is not.
WaitForConnection(n) ==
    /\ op' = [NoOp EXCEPT !.name = "wait", !.node = n,
                          !.changed = mqtt_connected_event[n]]
    /\ out' = <<>>
    /\ trace' = <<>>
    /\ UNCHANGED <<now, gpioVars, ledVars, sessionVars, serverVars,
                   yellow_accepted_at, heartbeat_at, commanded, beats, lifeVars>>

\* LEDDirectorClient.start_heartbeat
StartHeartbeat(c) ==
    /\ ~heartbeat_running[c]
    /\ heartbeat_running' = [heartbeat_running EXCEPT ![c] = TRUE]
    /\ out' = <<>>
    /\ op' = NoOp
    /\ trace' = <<>>
    /\ UNCHANGED <<now, gpioVars, ledVars, sessionVars, serverVars,
                   yellow_accepted_at, heartbeat_at, commanded, beats,
                   connect_callback, running, stopVars, ioVars,
                   mqtt_connected_event, handlerVars, state_sent>>

\* LEDDirectorClient.stop_heartbeat
StopHeartbeat(c) ==
    /\ heartbeat_running[c]
    /\ heartbeat_running' = [heartbeat_running EXCEPT ![c] = FALSE]
    /\ out' = <<>>
    /\ op' = NoOp
    /\ trace' = <<>>
    /\ UNCHANGED <<now, gpioVars, ledVars, sessionVars, serverVars,
                   yellow_accepted_at, heartbeat_at, commanded, beats,
                   connect_callback, running, stopVars, ioVars,
                   mqtt_connected_event, handlerVars, state_sent>>

\* One pass of _heartbeat_worker (client.py:81-99): the heartbeat is published
\* when the session is connected and skipped otherwise, then the thread
\* sleeps for the interval.
HeartbeatWorker(c) ==
    /\ heartbeat_running[c]
    /\ now + HEARTBEAT_INTERVAL <= BUTTON_COOLDOWN + MaxIntervals * HEARTBEAT_INTERVAL
    /\ Len(inbox["server"]) < MaxInbox
    /\ \E msgs \in {HeartbeatTick(c, IsConnected(c), beats[c])} :
          /\ out' = Published(c, msgs)
          /\ Broker(inbox, out')
          /\ mqtt_connected' = FlagAfterPublish(c, msgs, FALSE)
    /\ beats' = [beats EXCEPT ![c] =
                    [ticks |-> @.ticks + 1,
                     connected |-> @.connected + (IF IsConnected(c) THEN 1 ELSE 0),
                     sent |-> @.sent + Len(out')]]
    /\ now' = now + HEARTBEAT_INTERVAL
    /\ op' = [NoOp EXCEPT !.name = "heartbeat_tick", !.node = c,
                          !.mode = current_mode, !.connected = IsConnected(c)]
    /\ trace' = <<>>
    /\ UNCHANGED <<gpioVars, ledVars, lifeVars, link, disc_pending, subs, net_busy,
                   serverVars, yellow_accepted_at, heartbeat_at, commanded>>

\* One heartbeat interval passes on a client that has no heartbeat thread.
ClientIdle(c) ==
    /\ ~heartbeat_running[c]
    /\ now + HEARTBEAT_INTERVAL <= BUTTON_COOLDOWN + MaxIntervals * HEARTBEAT_INTERVAL
    /\ now' = now + HEARTBEAT_INTERVAL
    /\ out' = <<>>
    /\ op' = NoOp
    /\ trace' = <<>>
    /\ UNCHANGED <<gpioVars, ledVars, lifeVars, sessionVars, serverVars,
                   yellow_accepted_at, heartbeat_at, commanded, beats>>

\* A client's process_button_press lighting its own yellow LED on a yellow
\* press.
ClientProcessButtonPressLocal(c, color) ==
    IF color = "yellow" THEN <<[color |-> "yellow", state |-> TRUE, publish_state |-> TRUE]>>
    ELSE <<>>

\* LEDDirectorClient.process_button_press (client.py:57-61): the set_led
\* calls it makes. A yellow press is only logged, any other button is not
\* even that.
ClientProcessButtonPress(c, color) == <<>>

\* A button of a client is pressed and accepted: handle_button_press publishes
\* the event, then the client's process_button_press runs.
ClientButton(c, color, reconnect_raises) ==
    /\ Len(inbox["server"]) < MaxInbox
    /\ \E r \in {SetLeds(c, led_states[c], ClientProcessButtonPress(c, color))} :
       \E t \in {HandleButtonPress(c, color, r.calls)} :
       \E msgs \in {Publishes(t)} :
          /\ trace' = t
          /\ led_states' = [led_states EXCEPT ![c] = r.states]
          /\ out' = Published(c, msgs)
          /\ state_sent' = StateSent(c, out')
          /\ Broker(inbox, out')
          /\ mqtt_connected' = FlagAfterPublish(c, msgs, reconnect_raises)
    /\ op' = [NoOp EXCEPT !.name = "button", !.node = c, !.arg = color,
                          !.mode = current_mode, !.connected = IsConnected(c),
                          !.reconnect = mqtt_connected[c] /\ ~link[c]]
    /\ UNCHANGED <<now, gpioVars, threadVars, beats, led_out, calls, link, disc_pending,
                   subs, net_busy, serverVars, yellow_accepted_at, heartbeat_at,
                   commanded>>

\* ------------------------------------------------------------ shutdown

\* signal_handler (base.py:21-24): SIGINT or SIGTERM sets the Event.
SignalHandler ==
    /\ ~shutdown_flag
    /\ shutdown_flag' = TRUE
    /\ out' = <<>>
    /\ op' = NoOp
    /\ trace' = <<>>
    /\ UNCHANGED <<now, gpioVars, ledVars, sessionVars, serverVars,
                   yellow_accepted_at, heartbeat_at, commanded, beats,
                   connect_callback, heartbeat_running, running, main, released,
                   ioVars, mqtt_connected_event, handlerVars, state_sent>>

\* gpio.py:250-252 and :256: the polling thread finds the Event set at the top
\* of a pass and returns.
PollExit ==
    /\ poll.pc = "sleep"
    /\ shutdown_flag
    /\ poll' = [poll EXCEPT !.pc = "exited"]
    /\ UNCHANGED <<ledVars, coordVars, now, pin_level, edge_pins, button_states,
                   last_button_press, gpio_lock, irq_pending, irq, presses, fell_at,
                   edges>>

\* base.py:187-192: the main loop finds the Event set and enters cleanup(),
\* which sets the Event again (base.py:132).
MainLoopExit ==
    /\ main = "loop"
    /\ shutdown_flag
    /\ main' = "cleanup"
    /\ out' = <<>>
    /\ op' = NoOp
    /\ trace' = <<>>
    /\ UNCHANGED <<now, gpioVars, ledVars, sessionVars, serverVars,
                   yellow_accepted_at, heartbeat_at, commanded, beats,
                   connect_callback, heartbeat_running, running, shutdown_flag,
                   released, ioVars, mqtt_connected_event, handlerVars, state_sent>>

\* base.py:135-139: cleanup() joins the button thread for at most 2 s; it goes
\* on when the thread has returned or when the join times out.
CleanupJoin(timed_out) ==
    /\ main = "cleanup"
    /\ timed_out = (poll.pc # "exited")
    /\ main' = "closing"
    /\ out' = <<>>
    /\ op' = [NoOp EXCEPT !.name = "join", !.changed = timed_out]
    /\ trace' = <<>>
    /\ UNCHANGED <<now, gpioVars, ledVars, sessionVars, serverVars,
                   yellow_accepted_at, heartbeat_at, commanded, beats,
                   connect_callback, heartbeat_running, running, shutdown_flag,
                   released, ioVars, mqtt_connected_event, handlerVars, state_sent>>

\* base.py:142-143, the rest of cleanup() of node n: mqtt.disconnect() stops
\* the network thread and closes the connection (mqtt.py:214-218), then
\* gpio.cleanup() releases the pins and swallows its own errors
\* (gpio.py:291-296). Neither call of cleanup() is inside a try: when
\* mqtt_client.disconnect() raises, the exception leaves cleanup() before
\* gpio.cleanup() is reached.
CleanupRelease(n, disconnect_raises) ==
    /\ main = "closing"
    /\ main' = IF disconnect_raises THEN "raised" ELSE "done"
    /\ released' = IF disconnect_raises THEN released ELSE {"mqtt", "gpio"}
    /\ link' = IF disconnect_raises THEN link ELSE [link EXCEPT ![n] = FALSE]
    /\ subs' = IF disconnect_raises THEN subs ELSE [subs EXCEPT ![n] = {}]
    /\ inbox' = IF disconnect_raises THEN inbox ELSE [inbox EXCEPT ![n] = <<>>]
    /\ out' = <<>>
    /\ op' = [NoOp EXCEPT !.name = "cleanup", !.node = n,
                          !.changed = disconnect_raises]
    /\ trace' = <<>>
    /\ UNCHANGED <<now, gpioVars, ledVars, mqtt_connected, disc_pending, net_busy,
                   retained, serverVars,
                   yellow_accepted_at, heartbeat_at, commanded, beats,
                   connect_callback, heartbeat_running, running, shutdown_flag,
                   ioVars, mqtt_connected_event, handlerVars, state_sent>>

\* LEDDirectorClient.shutdown (client.py:145-150) and
\* LEDDirectorServer.shutdown (server.py:288-292) of the running node n. The
\* client stops its heartbeat and its status worker, the server its status
\* workers; the last statement of both is super().shutdown(). LEDDirectorBase
\* defines cleanup() and no shutdown(), and neither does object: the attribute
\* lookup raises AttributeError, which leaves shutdown() with cleanup() not
\* called.
Shutdown(n) ==
    /\ n \in running
    /\ main = "loop"
    /\ heartbeat_running' = [c \in Clients |-> c # n /\ heartbeat_running[c]]
    /\ main' = "raised"
    /\ out' = <<>>
    /\ op' = [NoOp EXCEPT !.name = "shutdown", !.node = n,
                          !.connected = IsConnected(n)]
    /\ trace' = <<>>
    /\ UNCHANGED <<now, gpioVars, ledVars, sessionVars, serverVars,
                   yellow_accepted_at, heartbeat_at, commanded, beats,
                   connect_callback, running, shutdown_flag, released,
                   ioVars, mqtt_connected_event, handlerVars, state_sent>>

\* ------------------------------------------------------------ handlers, statement by statement

\* The handlers of the server run on several threads with no lock of the
\* coordinator's own: a thread takes one statement of its handler per step.
\* GPIOManager.set_led and get_led_state are single steps, being held under
\* gpio_lock from their first statement to their last.

\* A _button_callback that calls the coordinator inside its `with` block.
CallbackLockHeld(ctx) == ctx

\* gpio.py:223-236 and 256-283: the `with self.gpio_lock` block has ended
\* when button_press_callback is called, so the lock is free again.
CallbackLock(ctx) == "free"

\* The loop over client_yellow_states of a red or green press
\* (server.py:303-307, 323-327): per client the state is reset, then the
\* yellow LED the server has for it is switched off.
RECURSIVE YellowLoop(_)
YellowLoop(ids) ==
    IF ids = <<>> THEN <<>>
    ELSE <<Call("yellow_off", Head(ids))>>
         \o (IF YellowLedName(Head(ids)) \in ServerLeds
             THEN <<Call("set_led", LedCall(YellowLedName(Head(ids)), FALSE))>>
             ELSE <<>>)
         \o YellowLoop(Tail(ids))

\* The three broadcast_to_clients calls that end a press: cmds holds the
\* messages of all three, one per client and call.
Broadcasts(cmds) ==
    LET k == Len(ClientOrder)
    IN [i \in 1..(Len(cmds) \div k) |->
           Call("broadcast", SubSeq(cmds, (i - 1) * k + 1, i * k))]

\* handle_button_press(color) of the server as the statements it executes
\* (base.py:99-111, server.py:294-353).
ServerPressProgram(color) ==
    LET p == ProcessButtonPress(color)
        event == <<Call("publish", Msg(EventTopic("server", color), [pressed |-> TRUE],
                                        FALSE, 1))>>
    IN IF color \in {"red", "green"}
       THEN event \o <<Call("mode", p.mode),
                       Call("set_led", p.sets[1]), Call("set_led", p.sets[2])>>
            \o YellowLoop(ClientOrder) \o Broadcasts(p.cmds)
       ELSE IF color = "clear"
       THEN event \o <<Call("mode", p.mode)>>
            \o [i \in 1..Len(p.sets) |-> Call("set_led", p.sets[i])]
            \o [i \in 1..Len(ClientOrder) |-> Call("yellow_off", ClientOrder[i])]
            \o Broadcasts(p.cmds)
       ELSE event

\* on_mqtt_connected of the server as the statements it executes
\* (base.py:64-75): the subscriptions, then per LED the read of the cached
\* state followed by its publish.
ConnectProgram ==
    [i \in 1..Len(SubscriptionOrder("server")) |->
        Call("subscribe", SubscriptionOrder("server")[i])]
    \o [i \in 1..Len(LedOrder("server")) |-> Call("republish", LedOrder("server")[i])]

\* One flash of a status worker: server.py:233-237 for the MQTT status worker
\* (the red LED) and server.py:257-279 for the client status worker (the first
\* LED whose name starts with yellow).
FlashProgram(worker) ==
    LET led == IF worker = "mqtt" THEN "red" ELSE "yellow_client1"
    IN <<Call("gpio_set_led", [color |-> led, state |-> TRUE]),
         Call("gpio_set_led", [color |-> led, state |-> FALSE])>>

\* The statements that take gpio_lock.
NeedsLock(c) == c.call \in {"set_led", "gpio_set_led", "republish"}

\* What one statement does to the server: the mode, the per-client states
\* and timestamps, the LED cache, the state the coordinator last asked for,
\* the holder of the lock, the subscriptions, the messages passed to publish
\* and the statements it puts before the rest of the handler.
StepEffect(ctx, c) ==
    LET same == [mode |-> current_mode, yellow |-> client_yellow_states,
                 last_press |-> client_last_press, leds |-> led_states["server"],
                 coord |-> coord_led, lock |-> gpio_lock, subs |-> subs["server"],
                 msgs |-> <<>>, next |-> <<>>]
    IN IF c.call = "accepted"
       THEN [same EXCEPT !.lock = CallbackLock(ctx), !.next = ServerPressProgram(c.arg)]
       ELSE IF c.call = "publish" THEN [same EXCEPT !.msgs = <<c.arg>>]
       ELSE IF c.call = "broadcast" THEN [same EXCEPT !.msgs = c.arg]
       ELSE IF c.call = "subscribe" THEN [same EXCEPT !.subs = @ \cup {c.arg}]
       ELSE IF c.call = "mode" THEN [same EXCEPT !.mode = c.arg]
       ELSE IF c.call = "yellow_off" THEN [same EXCEPT !.yellow[c.arg] = FALSE]
       ELSE IF c.call = "set_led"
       THEN LET r == BaseSetLed("server", led_states["server"], c.arg.color,
                                c.arg.state, c.arg.publish_state, FALSE)
            IN [same EXCEPT !.leds = r.states,
                            !.coord = IF c.arg.color \in DOMAIN coord_led
                                      THEN [coord_led EXCEPT ![c.arg.color] = c.arg.state]
                                      ELSE coord_led,
                            !.next = [i \in 1..Len(r.msgs) |-> Call("publish", r.msgs[i])]]
       ELSE IF c.call = "gpio_set_led"
       THEN [same EXCEPT !.leds = GpioSetLed(led_states["server"], c.arg.color,
                                             c.arg.state, FALSE).states]
       ELSE IF c.call = "republish"
       THEN [same EXCEPT !.next =
                <<Call("publish",
                       LedStateMsg("server", c.arg,
                                   GpioGetLedState(led_states["server"], c.arg)))>>]
       ELSE IF c.call = "yellow"
       THEN IF c.arg \notin DOMAIN client_yellow_states THEN same
            ELSE IF CooldownActive(now, client_last_press[c.arg]) THEN same
            ELSE [same EXCEPT !.last_press[c.arg] = now,
                              !.next = IF YellowAllowed(current_mode)
                                       THEN <<Call("yellow_toggle", c.arg)>> ELSE <<>>]
       ELSE IF c.call = "yellow_toggle"
       THEN LET new_state == ~client_yellow_states[c.arg]
            IN [same EXCEPT !.yellow[c.arg] = new_state,
                   !.next = (IF YellowLedName(c.arg) \in ServerLeds
                             THEN <<Call("set_led", LedCall(YellowLedName(c.arg), new_state))>>
                             ELSE <<>>)
                            \o <<Call("publish", Msg(CmdTopic(c.arg, "yellow"),
                                                     [state |-> new_state], FALSE, 1))>>]
       ELSE same

\* What no statement of a handler touches.
HandlerFrame ==
    UNCHANGED <<now, pin_level, edge_pins, button_states, last_button_press,
                irq_pending, irq, poll, fell_at, edges, calls, link, disc_pending,
                net_busy, connected_clients, yellow_accepted_at, heartbeat_at,
                commanded, beats, trace, connect_callback, heartbeat_running, running,
                stopVars, ioVars>>

\* What the start of a handler leaves alone.
StartFrame ==
    /\ out' = <<>>
    /\ op' = NoOp
    /\ UNCHANGED <<ledVars, inbox, retained, subs, serverVars, coord_led, state_sent>>
    /\ HandlerFrame

\* Thread ctx executes the next statement of its handler.
Step(ctx) ==
    /\ Len(todo[ctx]) > 0
    /\ \E c \in {Head(todo[ctx])} :
          /\ NeedsLock(c) => gpio_lock = "free"
          /\ \E e \in {StepEffect(ctx, c)} :
                /\ current_mode' = e.mode
                /\ client_yellow_states' = e.yellow
                /\ client_last_press' = e.last_press
                /\ led_states' = [led_states EXCEPT !["server"] = e.leds]
                /\ led_out' = e.leds
                /\ coord_led' = e.coord
                /\ gpio_lock' = e.lock
                /\ subs' = [subs EXCEPT !["server"] = e.subs]
                /\ out' = Published("server", e.msgs)
                /\ state_sent' = StateSent("server", out')
                /\ Broker(inbox, out')
                /\ mqtt_connected' = FlagAfterPublish("server", e.msgs, FALSE)
                /\ todo' = [todo EXCEPT ![ctx] = e.next \o Tail(@)]
          /\ op' = [NoOp EXCEPT !.name = c.call, !.node = "server", !.arg = ctx,
                                !.mode = current_mode,
                                !.connected = IsConnected("server")]
    /\ UNCHANGED <<presses, mqtt_connected_event>>
    /\ HandlerFrame

\* A press of a server button is accepted on thread ctx, the interrupt
\* dispatcher (gpio.py:219-231) or the polling thread (gpio.py:256-272): the
\* debounce test is made under gpio_lock. A button is served by the interrupt
\* dispatcher when add_event_detect succeeded for its pin and by the polling
\* thread otherwise (gpio.py:244-245).
ButtonAccept(ctx, color) ==
    /\ (ctx = "irq") = (color \in edge_pins)
    /\ Len(todo[ctx]) = 0
    /\ presses < MaxPresses
    /\ gpio_lock = "free"
    /\ gpio_lock' = ctx
    /\ todo' = [todo EXCEPT ![ctx] = <<Call("accepted", color)>>]
    /\ presses' = presses + 1
    /\ UNCHANGED <<mqtt_connected, mqtt_connected_event>>
    /\ StartFrame

\* The network thread starts handle_client_yellow_press for a press message
\* of client_id (server.py:70-71).
YellowArrives(client_id) ==
    /\ Len(todo["network"]) = 0
    /\ presses < MaxPresses
    /\ link["server"] /\ "server" \notin net_busy
    /\ todo' = [todo EXCEPT !["network"] = <<Call("yellow", client_id)>>]
    /\ presses' = presses + 1
    /\ UNCHANGED <<gpio_lock, mqtt_connected, mqtt_connected_event>>
    /\ StartFrame

\* The broker acknowledges the server's connection and the network thread
\* enters on_mqtt_connected (mqtt.py:113-120).
ConnectStart ==
    /\ ~link["server"] /\ ~disc_pending["server"]
    /\ Len(todo["network"]) = 0
    /\ link' = [link EXCEPT !["server"] = TRUE]
    /\ mqtt_connected' = [mqtt_connected EXCEPT !["server"] = TRUE]
    /\ mqtt_connected_event' = [mqtt_connected_event EXCEPT !["server"] = TRUE]
    /\ todo' = [todo EXCEPT !["network"] = ConnectProgram]
    /\ out' = <<>>
    /\ op' = [NoOp EXCEPT !.name = "connect", !.node = "server", !.connected = TRUE,
                          !.mode = current_mode]
    /\ UNCHANGED <<now, gpioVars, ledVars, disc_pending, subs, inbox, net_busy, retained,
                   serverVars, yellow_accepted_at, heartbeat_at, commanded, trace, beats,
                   connect_callback, heartbeat_running, running, stopVars, ioVars,
                   coord_led, state_sent>>

\* A status worker of the server finds its condition and starts a flash:
\* the MQTT status worker when the session is not connected (server.py:229),
\* the client status worker when a client of the roster is not connected
\* (server.py:254-259).
FlashStart(worker) ==
    /\ Len(todo["status"]) = 0
    /\ presses < MaxPresses
    /\ IF worker = "mqtt" THEN ~IsConnected("server")
       ELSE \E c \in Clients : ~IsClientConnected(c)
    /\ todo' = [todo EXCEPT !["status"] = FlashProgram(worker)]
    /\ presses' = presses + 1
    /\ UNCHANGED <<gpio_lock, mqtt_connected, mqtt_connected_event>>
    /\ StartFrame

\* ------------------------------------------------------------ specifications

\* No state topic is watched.
NoStateWatch == [n \in Nodes |-> <<>>]

\* Every state topic is watched, and nothing has been published on any.
StateWatch == [n \in Nodes |-> [l \in LedPins(n) |-> "none"]]

\* Both constructors have returned (base.py:35-62, server.py:17-39,
\* client.py:18-27).
InitConstructed ==
    /\ InitSession /\ InitServer /\ InitHistory /\ InitThreads /\ InitShutdown
    /\ InitIo
    /\ connect_callback = Nodes

InitCoord == InitConstructed /\ state_sent = NoStateWatch

NextSession(n) ==
    \/ ConnAck(n)
    \/ ConnRefused(n)
    \/ LinkLoss(n)
    \/ OnDisconnect(n)
    \/ CallbackReturn(n)

\* The server alone, peers' yellow presses arriving over its subscription.
NextServer ==
    \/ NextSession("server")
    \/ \E color \in ServerButtons, reconnect_raises \in ReconnectOutcomes("server") :
           ServerButton(color, reconnect_raises)
    \/ \E id \in Clients : DeliverYellow(id)
    \/ \E reconnect_raises \in ReconnectOutcomes("server") :
           ServerHandleMessage(reconnect_raises)
    \/ TickServer

\* The server's presence table, peers' heartbeats arriving.
NextPresence ==
    \/ NextSession("server")
    \/ \E id \in Ids : DeliverHeartbeat(id)
    \/ \E reconnect_raises \in ReconnectOutcomes("server") :
           ServerHandleMessage(reconnect_raises)
    \/ CleanupOldClients
    \/ TickPresence

\* The server, the broker and the clients; no peer presses a button.
NextNet ==
    \/ \E n \in Nodes : NextSession(n)
    \/ \E color \in ServerButtons, reconnect_raises \in ReconnectOutcomes("server") :
           ServerButton(color, reconnect_raises)
    \/ \E c \in Clients : \E reconnect_raises \in ReconnectOutcomes(c) :
           ClientHandleMessage(c, reconnect_raises)

\* The buttons of both roles: the server and one client, client1, each with
\* its session; client2 is switched off.
NextButtons ==
    \/ NextSession("server")
    \/ NextSession("client1")
    \/ \E color \in ServerButtons, reconnect_raises \in ReconnectOutcomes("server") :
           ServerButton(color, reconnect_raises)
    \/ \E color \in ClientButtons, reconnect_raises \in ReconnectOutcomes("client1") :
           ClientButton("client1", color, reconnect_raises)
    \/ \E reconnect_raises \in ReconnectOutcomes("server") :
           ServerHandleMessage(reconnect_raises)
    \/ \E reconnect_raises \in ReconnectOutcomes("client1") :
           ClientHandleMessage("client1", reconnect_raises)

\* Everything the server handles: connect notifications, its own buttons, one
\* of them a button without logic, and peers' yellow presses and heartbeats.
NextMode ==
    \/ NextSession("server")
    \/ \E color \in ServerButtons \cup {ExtraButton},
          reconnect_raises \in ReconnectOutcomes("server") :
           ServerButton(color, reconnect_raises)
    \/ \E id \in Clients : DeliverYellow(id)
    \/ \E id \in Ids : DeliverHeartbeat(id)
    \/ \E reconnect_raises \in ReconnectOutcomes("server") :
           ServerHandleMessage(reconnect_raises)

\* The messages the server and one client, client1, receive, well-formed and
\* not: the server's red button, a peer's yellow presses and
\* heartbeats, and payloads that are empty or cannot be decoded on the topics
\* each of the two is subscribed to.
NextInbound ==
    \/ NextSession("server")
    \/ NextSession("client1")
    \/ \E reconnect_raises \in ReconnectOutcomes("server") :
           ServerButton("red", reconnect_raises)
    \/ DeliverYellow("client2")
    \/ DeliverHeartbeat("client2")
    \/ \E body \in Bodies \ {"json"} :
          \/ DeliverMalformed("server", EventTopic("client2", "yellow"), body)
          \/ DeliverMalformed("server", HeartbeatTopic("client2"), body)
          \/ DeliverMalformed("client1", CmdTopic("client1", "red"), body)
    \/ \E reconnect_raises \in ReconnectOutcomes("server") :
           ServerHandleMessage(reconnect_raises)
    \/ \E reconnect_raises \in ReconnectOutcomes("client1") :
           ClientHandleMessage("client1", reconnect_raises)

\* Every kind of message: the server and client1 connect to a broker that
\* stays reachable, the buttons of both roles are pressed, the messages are
\* handled, and client1 runs its heartbeat thread.
NextFlags ==
    \/ \E n \in {"server", "client1"} : ConnAck(n) \/ CallbackReturn(n)
    \/ \E color \in ServerButtons : ServerButton(color, FALSE)
    \/ \E color \in ClientButtons : ClientButton("client1", color, FALSE)
    \/ ServerHandleMessage(FALSE)
    \/ ClientHandleMessage("client1", FALSE)
    \/ StartHeartbeat("client1")
    \/ (beats["client1"].ticks < MaxBeats /\ HeartbeatWorker("client1"))

\* The construction of the coordinators: each node's network thread runs
\* beside the thread that registers the connect callback.
NextConstruct ==
    \/ \E n \in Nodes : SetConnectCallback(n)
    \/ \E n \in Nodes : NextSession(n)

\* set_led called on the server with every argument, beside the server's
\* buttons.
NextSetLed ==
    \/ NextSession("server")
    \/ \E color \in LedNames, state \in BOOLEAN, publish_state \in BOOLEAN,
          fault \in BOOLEAN, reconnect_raises \in ReconnectOutcomes("server") :
           CoordSetLed("server", color, state, publish_state, fault, reconnect_raises)
    \/ \E color \in ServerButtons, reconnect_raises \in ReconnectOutcomes("server") :
           ServerButton(color, reconnect_raises)

\* One client, client1: its session, its run() and its heartbeat thread.
NextClient ==
    \/ NextSession("client1")
    \/ WaitForConnection("client1")
    \/ Run("client1")
    \/ StartHeartbeat("client1")
    \/ StopHeartbeat("client1")
    \/ HeartbeatWorker("client1")
    \/ ClientIdle("client1")

\* The threads of the process of one client, client1, from run() to the end
\* of cleanup(): the main thread, the polling thread that run() starts
\* (base.py:178-183), the network thread, which mqtt.disconnect() stops, and
\* the heartbeat thread. No button is pressed.
MainThread ==
    \/ MainLoopExit
    \/ \E timed_out \in BOOLEAN : CleanupJoin(timed_out)
    \/ \E disconnect_raises \in BOOLEAN : CleanupRelease("client1", disconnect_raises)

PollThread ==
    /\ main # "new"
    /\ (PollStart \/ PollLock \/ PollDebounce \/ PollSleep \/ PollExit)

NextShutdown ==
    \/ (main \notin {"done", "raised"} /\ NextSession("client1"))
    \/ Run("client1")
    \/ SignalHandler
    \/ MainThread
    \/ PollThread
    \/ StartHeartbeat("client1")
    \/ HeartbeatWorker("client1")

\* run() of one client, client1, from its call to its return, on any path:
\* the session, the signal handler, the main thread and the polling thread.
NextRun ==
    \/ (main \notin {"done", "raised", "returned"} /\ NextSession("client1"))
    \/ Run("client1")
    \/ RunReturnsEarly("client1")
    \/ SignalHandler
    \/ MainThread
    \/ (main # "returned" /\ PollThread)

\* One node, the server or client1, runs and shutdown() is called on it; a
\* client has its heartbeat thread.
NextShutdownCall ==
    \/ \E n \in {"server", "client1"} : main # "raised" /\ NextSession(n)
    \/ \E n \in {"server", "client1"} : Run(n)
    \/ StartHeartbeat("client1")
    \/ \E n \in {"server", "client1"} : Shutdown(n)

\* The three threads of the server that take gpio_lock: the interrupt
\* dispatcher and the polling thread handling the buttons, and the network
\* thread running on_mqtt_connected and handling a peer's yellow presses. The
\* red button is pressed, which has edge detection, and the green one, which
\* is polled.
NextLock ==
    \/ ConnectStart
    \/ ButtonAccept("irq", "red")
    \/ ButtonAccept("poll", "green")
    \/ YellowArrives("client1")
    \/ Step("irq")
    \/ Step("poll")
    \/ Step("network")

\* time.time() is far past 0, the initial last_button_press (gpio.py:162) and
\* client_last_press (server.py:26).
InitSpecGpio == now = DEBOUNCE /\ InitGpio /\ InitLed /\ InitCoord

SpecGpio == InitSpecGpio /\ [][NextGpio]_vars

InitSpecLed == now = DEBOUNCE /\ InitGpio /\ edge_pins = {} /\ InitLed /\ InitCoord

SpecLed == InitSpecLed /\ [][NextLed]_vars

\* The server's polling thread handling its buttons while the network thread
\* handles peers' yellow presses.
NextYellowRace ==
    \/ ConnAck("server")
    \/ CallbackReturn("server")
    \/ \E color \in ServerButtons : ButtonAccept("poll", color)
    \/ \E c \in Clients : YellowArrives(c)
    \/ Step("poll")
    \/ Step("network")

\* The server's buttons handled on two threads, the interrupt dispatcher and
\* the polling thread.
NextButtonRace ==
    \/ \E color \in ServerButtons : ButtonAccept("irq", color)
    \/ \E color \in ServerButtons : ButtonAccept("poll", color)
    \/ Step("irq")
    \/ Step("poll")

\* The server and one client, client1, connect and stay connected; the
\* server's buttons are pressed and client1 handles what it receives.
NextStateSeed ==
    \/ ConnAck("server")
    \/ ConnAck("client1")
    \/ CallbackReturn("server")
    \/ CallbackReturn("client1")
    \/ \E color \in ServerButtons, reconnect_raises \in ReconnectOutcomes("server") :
           ServerButton(color, reconnect_raises)
    \/ \E reconnect_raises \in ReconnectOutcomes("client1") :
           ClientHandleMessage("client1", reconnect_raises)

\* The server's network thread running on_mqtt_connected while the polling
\* thread handles the buttons.
NextRepublish ==
    \/ ConnectStart
    \/ \E color \in ServerButtons : ButtonAccept("poll", color)
    \/ Step("poll")
    \/ Step("network")

\* The server's status workers flashing while the polling thread handles the
\* buttons; the session is not connected and no heartbeat has arrived.
NextFlash ==
    \/ \E worker \in {"mqtt", "client"} : FlashStart(worker)
    \/ \E color \in ServerButtons : ButtonAccept("poll", color)
    \/ Step("poll")
    \/ Step("status")

SpecLedThreads == InitSpecLed /\ [][NextLedThreads]_vars

InitSpecServer == now = BUTTON_COOLDOWN /\ InitGpio /\ edge_pins = {} /\ InitLed /\ InitCoord

SpecServer == InitSpecServer /\ [][NextServer]_vars

SpecYellowRace == InitSpecServer /\ [][NextYellowRace]_vars

\* The server is constructed; add_event_detect has succeeded for some of its
\* buttons and failed for the others (gpio.py:150-176).
InitSpecButtonRace ==
    /\ now = BUTTON_COOLDOWN /\ InitGpio /\ InitLed /\ InitCoord
    /\ edge_pins \in SUBSET ServerButtons

SpecButtonRace == InitSpecButtonRace /\ [][NextButtonRace]_vars

\* Every node is constructed and the retained state messages are watched.
InitSpecStateSeed ==
    /\ now = BUTTON_COOLDOWN /\ InitGpio /\ edge_pins = {} /\ InitLed
    /\ InitConstructed /\ state_sent = StateWatch

SpecStateSeed == InitSpecStateSeed /\ [][NextStateSeed]_vars

SpecRepublish == InitSpecStateSeed /\ [][NextRepublish]_vars

SpecFlash == InitSpecServer /\ [][NextFlash]_vars

SpecPresence == InitSpecServer /\ [][NextPresence]_vars

SpecNet == InitSpecServer /\ [][NextNet]_vars

SpecButtons == InitSpecServer /\ [][NextButtons]_vars

SpecMode == InitSpecServer /\ [][NextMode]_vars

SpecInbound == InitSpecServer /\ [][NextInbound]_vars

SpecFlags == InitSpecServer /\ [][NextFlags]_vars

SpecSetLed == InitSpecServer /\ [][NextSetLed]_vars

SpecClient == InitSpecServer /\ [][NextClient]_vars

\* A settings file has been loaded, with any pin for each name, and the GPIO
\* manager is about to be constructed.
InitSpecSetup ==
    /\ now = BUTTON_COOLDOWN /\ InitGpio /\ edge_pins = {} /\ InitLed
    /\ InitSession /\ InitServer /\ InitHistory /\ InitThreads /\ InitShutdown
    /\ connect_callback = {}
    /\ state_sent = NoStateWatch
    /\ pin_config \in PinConfigs
    /\ gpio_setup = [status |-> "new", inputs |-> {}, outputs |-> {}]
    /\ writer = [t \in Writers |-> WriterIdle]

NextSetup == ConstructGpio

SpecSetup == InitSpecSetup /\ [][NextSetup]_vars

InitSpecShutdown == now = BUTTON_COOLDOWN /\ InitGpio /\ InitLed /\ InitCoord

SpecShutdown == InitSpecShutdown /\ [][NextShutdown]_vars

SpecShutdownCall == InitSpecShutdown /\ [][NextShutdownCall]_vars

\* The server is constructed; add_event_detect has succeeded for the red
\* button only, the other buttons are polled.
InitSpecLock ==
    /\ now = BUTTON_COOLDOWN /\ InitGpio /\ InitLed /\ InitCoord
    /\ edge_pins = {"red"}

SpecLock == InitSpecLock /\ [][NextLock]_vars

\* Each of the three threads is scheduled by the operating system: a thread
\* that can execute its next statement eventually does.
SpecLockFair ==
    /\ SpecLock
    /\ WF_vars(Step("irq"))
    /\ WF_vars(Step("poll"))
    /\ WF_vars(Step("network"))

SpecRun == InitSpecShutdown /\ [][NextRun]_vars

\* Every thread that can take a step of its own takes it: the main thread
\* and the polling thread are scheduled by the operating system.
SpecShutdownFair ==
    /\ SpecShutdown
    /\ WF_vars(MainThread)
    /\ WF_vars(PollThread)

\* MQTTManager.__init__ has returned (base.py:50-54): the network thread is
\* running and no callback of the coordinator is registered yet.
InitSpecConstruct ==
    /\ now = BUTTON_COOLDOWN /\ InitGpio /\ edge_pins = {} /\ InitLed
    /\ InitSession /\ InitServer /\ InitHistory /\ InitThreads /\ InitShutdown
    /\ InitIo
    /\ connect_callback = {}
    /\ state_sent = NoStateWatch

SpecConstruct == InitSpecConstruct /\ [][NextConstruct]_vars

\* ------------------------------------------------------------ claims, GPIO

Accepted(i) == edges[i].ok

SameButton(i, j) == edges[i].color = edges[j].color

\* C2: for each button, any two accepted presses have debounce timestamps at
\* least DEBOUNCE apart, on the interrupt path and on the polling path alike,
\* and the check and the update of the timestamp happen in one step of the
\* thread that holds the GPIO lock (never two threads inside at once).
C2_DebounceGap ==
    /\ \A i, j \in DOMAIN edges :
          (i < j /\ SameButton(i, j) /\ Accepted(i) /\ Accepted(j))
              => edges[j].ts - edges[i].ts >= DEBOUNCE
    /\ \A b \in Buttons : \A i \in DOMAIN edges :
          (edges[i].color = b /\ Accepted(i)) => last_button_press[b] >= edges[i].ts
    /\ (irq.pc = "locked") = (gpio_lock = "irq")
    /\ (poll.pc = "locked") = (gpio_lock = "poll")

\* C2 witness: a button with two accepted presses, one of them judged on a
\* timestamp read before its edge fell (a polling pass held up by a callback).
C2_Witness ==
    \E i, j \in DOMAIN edges :
        /\ i < j /\ SameButton(i, j) /\ Accepted(i) /\ Accepted(j)
        /\ (edges[i].ts < edges[i].fell \/ edges[j].ts < edges[j].fell)

\* C3: of the falling edges of one button that arrive within one debounce
\* window, exactly one is delivered: an edge that falls at least DEBOUNCE
\* after every earlier accepted press of the button is accepted, and an edge
\* that falls less than DEBOUNCE after an accepted one is dropped.
C3_OneEventPerBurst ==
    \A j \in DOMAIN edges :
        LET early == \E i \in 1..(j - 1) :
                        /\ SameButton(i, j) /\ Accepted(i)
                        /\ edges[j].fell - edges[i].fell < DEBOUNCE
        IN Accepted(j) = ~early

\* ------------------------------------------------------------ claims, LEDs

\* Calls i and i+1 are set_led(name, state) twice in a row on a configured LED.
SameCallTwice(i) ==
    /\ i + 1 \in DOMAIN calls
    /\ calls[i].color \in ServerLeds
    /\ calls[i + 1].color = calls[i].color
    /\ calls[i + 1].state = calls[i].state

Writes(i) == IF calls[i].output = "written" THEN 1 ELSE 0

SecondIsNoOp(i) ==
    /\ ~calls[i + 1].changed
    /\ calls[i + 1].output = "none"
    /\ calls[i + 1].after = calls[i + 1].before

Sent(msg) == \E i \in DOMAIN out : out[i] = msg

TimesSent(msg) == Cardinality({i \in DOMAIN out : out[i] = msg})

Cmd(c, led, state) == Msg(CmdTopic(c, led), [state |-> state], FALSE, 1)

Settled ==
    /\ \A n \in Nodes : /\ link[n] /\ mqtt_connected[n] /\ ~disc_pending[n]
                        /\ subs[n] = RoleSubscriptions(n)
                        /\ inbox[n] = <<>>
    /\ net_busy = {}

\* C1: after a red, green or clear press on the server, with no later press,
\* every configured client comes to show the LED values the press commanded,
\* also a client that was disconnected at the broadcast and reconnected
\* later. Once every session is connected and subscribed again, nothing is in
\* flight and no callback is running, nothing more will reach a client, so by
\* then each client's LEDs must equal the values of a press that was broadcast.
C1_EventuallySynchronized ==
    (commanded.broadcast /\ Settled) =>
        \A c \in Clients : /\ led_states[c]["red"] = commanded.red
                           /\ led_states[c]["green"] = commanded.green
                           /\ led_states[c]["yellow"] = commanded.yellow

\* C5: on every connect acknowledgement, so after each reconnect, the
\* coordinator republishes the current cached state of every configured LED
\* as a retained message, each LED exactly once and nothing else.
C5_RepublishOnReconnect ==
    (op.name = "connect") =>
        /\ Len(out) = Cardinality(LedPins(op.node))
        /\ \A color \in LedPins(op.node) :
               TimesSent(LedStateMsg(op.node, color, led_states[op.node][color])) = 1
        /\ \A i \in DOMAIN out : out[i].retain

\* A client connects with an LED on: it has applied a command before, so
\* this is a reconnect.
C5_Witness ==
    /\ op.name = "connect" /\ op.node \in Clients
    /\ \E color \in LedPins(op.node) : led_states[op.node][color]
    /\ \E color \in LedPins(op.node) : ~led_states[op.node][color]

YellowHandled(c) == op'.node = "server" /\ op'.name = "yellow" /\ op'.arg = c

\* C6: in RED_ACTIVE a yellow press of a configured peer that is accepted
\* toggles the peer's yellow state and sends that peer one command, and a
\* press arriving less than the cooldown after the peer's previous accepted
\* press is dropped: the yellow state is unchanged and no command is sent.
C6_CooldownDropsRepeat ==
    [][\A c \in Clients :
        (YellowHandled(c) /\ current_mode = "red_active") =>
            /\ client_yellow_states'[c] # client_yellow_states[c] =>
                   /\ out'[Len(out')] = Cmd(c, "yellow", client_yellow_states'[c])
                   /\ \A d \in Clients \ {c} :
                          client_yellow_states'[d] = client_yellow_states[d]
            /\ op'.arrived - yellow_accepted_at[c] < BUTTON_COOLDOWN =>
                   /\ client_yellow_states' = client_yellow_states
                   /\ out' = <<>>]_vars

\* C7: a server in IDLE ignores a peer's yellow-button message: handling one
\* changes no LED state and no per-client yellow state and publishes nothing.
C7_IdleIgnoresYellow ==
    [][(op'.node = "server" /\ op'.name = "yellow" /\ current_mode = "idle") =>
           /\ led_states' = led_states
           /\ led_out' = led_out
           /\ client_yellow_states' = client_yellow_states
           /\ current_mode' = current_mode
           /\ out' = <<>>]_vars

C7_Witness ==
    /\ op.node = "server" /\ op.name = "yellow" /\ op.mode = "idle"
    /\ op.arg \in Clients /\ op.connected
    /\ client_last_press[op.arg] = now

\* C8: a client applying an inbound LED command publishes no message at all,
\* whether or not the command changed the LED.
C8_NoEcho ==
    (op.name = "command") => out = <<>>

C8_Witness ==
    /\ op.name = "command" /\ op.node \in Clients /\ op.changed /\ op.connected
    /\ op.arg = "red" /\ led_states[op.node]["red"]

PressedRedOrGreen == op.name = "button" /\ op.arg \in {"red", "green"}

LocalAfterPress ==
    /\ current_mode = (IF op.arg = "red" THEN "red_active" ELSE "green_active")
    /\ led_states["server"]["red"] = (op.arg = "red")
    /\ led_states["server"]["green"] = (op.arg = "green")
    /\ \A c \in Clients : ~client_yellow_states[c]
    /\ \A c \in Clients : YellowLedName(c) \in ServerLeds =>
                              ~led_states["server"][YellowLedName(c)]

PressedClear == op.name = "button" /\ op.node = "server" /\ op.arg = "clear"

LocalAfterClear ==
    /\ current_mode = "idle"
    /\ \A color \in ServerLeds : ~led_states["server"][color] /\ ~led_out[color]
    /\ \A c \in Clients : ~client_yellow_states[c]

ButtonHandled == op.name = "button"

EventOf == Msg(EventTopic(op.node, op.arg), [pressed |-> TRUE], FALSE, 1)

\* The handler's first call is the publish of the non-retained event, so no
\* mode change, set_led or command precedes it.
EventFirst ==
    /\ Len(trace) >= 1
    /\ trace[1].call = "publish"
    /\ trace[1].arg = EventOf
    /\ ~trace[1].arg.retain

\* C12 as stated: for every accepted button event, on the server or a client,
\* the non-retained event message is published, and before any local logic.
C12_EventPublishedAlways ==
    ButtonHandled =>
        /\ EventFirst
        /\ out # <<>>
        /\ out[1] = EventOf

\* C12, amended: publishing the event is the first call of the handler in
\* every case; when the session is connected the event is the first message
\* published and is published once, also when the button's logic does
\* nothing, and when the session is not connected nothing is published.
C12_EventFirstWhenConnected ==
    ButtonHandled =>
        /\ EventFirst
        /\ op.connected => /\ out # <<>>
                           /\ out[1] = EventOf
                           /\ TimesSent(EventOf) = 1
        /\ ~op.connected => out = <<>>

\* A connected client's button: its logic does nothing and the event is all
\* that is published.
C12_Witness ==
    /\ ButtonHandled /\ op.node \in Clients /\ op.connected
    /\ trace = <<Call("publish", EventOf)>>
    /\ out = <<EventOf>>

\* C13: every successful connect acknowledgement, the first one after
\* construction as well as each reconnect, runs the coordinator's on-connected
\* handler (it subscribes and republishes), however the network thread is
\* interleaved with the registration of the callback.
C13_EveryAckRunsHandler ==
    (op.name = "connect") =>
        /\ trace = OnMqttConnected(op.node, led_states[op.node])
        /\ subs[op.node] = RoleSubscriptions(op.node)

OnConnectedNotified == op.name = "connect" /\ op.node \in connect_callback

\* C14: on every on-connected notification, the first and each later one,
\* the coordinator subscribes to every topic filter of its role, so the
\* connection holds exactly the role's subscriptions, and every subscribe
\* call precedes every publish of an LED state.
C14_ResubscribeThenRepublish ==
    OnConnectedNotified =>
        /\ subs[op.node] = RoleSubscriptions(op.node)
        /\ \A f \in RoleSubscriptions(op.node) :
               \E i \in DOMAIN trace : trace[i].call = "subscribe" /\ trace[i].arg = f
        /\ \E j \in DOMAIN trace : trace[j].call = "publish"
        /\ \A i, j \in DOMAIN trace :
               (trace[i].call = "subscribe" /\ trace[j].call = "publish") => i < j

\* A client is notified with its green LED on: it was connected before, lost
\* its subscriptions with the link, and holds them again.
C14_Witness ==
    /\ OnConnectedNotified /\ op.node \in Clients
    /\ led_states[op.node]["green"]
    /\ subs[op.node] = RoleSubscriptions(op.node)
    /\ trace[1].call = "subscribe"

SetLedCalled == op.name = "set_led"

\* The arguments (color, state, publish_state) of the set_led call.
SetLedArg == trace[1].arg

\* C15 as stated: set_led(name, state, publish) publishes exactly one retained
\* state message for that LED when the GPIO manager reports a change and
\* publish is true, and nothing otherwise.
C15_SetLedPublishesAlways ==
    SetLedCalled =>
        out = IF op.changed /\ SetLedArg.publish_state
              THEN <<LedStateMsg(op.node, op.arg, SetLedArg.state)>>
              ELSE <<>>

\* C15, amended: as stated when the session is connected; nothing is
\* published when it is not connected, when the GPIO manager reports no
\* change, or when publish is false. So a server button pressed again at once
\* publishes no state message.
C15_SetLedPublishesWhenConnected ==
    /\ [](SetLedCalled =>
            /\ (op.connected /\ op.changed /\ SetLedArg.publish_state) =>
                   /\ out = <<LedStateMsg(op.node, op.arg, SetLedArg.state)>>
                   /\ out[1].retain
            /\ ~(op.connected /\ op.changed /\ SetLedArg.publish_state) =>
                   out = <<>>)
    /\ [][(/\ op.name = "button" /\ op.node = "server"
           /\ op'.name = "button" /\ op'.node = "server"
           /\ op'.arg = op.arg) =>
              \A i \in DOMAIN out' : ~out'[i].retain]_vars

\* A connected server turns an LED on with publish true: one state message.
C15_Witness ==
    /\ SetLedCalled /\ op.connected /\ op.changed
    /\ SetLedArg.publish_state /\ SetLedArg.state
    /\ out = <<LedStateMsg("server", op.arg, TRUE)>>

\* A message addressed to a client's command topics.
IsCommand(m) == Len(m.topic) = 6 /\ m.topic[2] = "client" /\ m.topic[4] = "cmd"

\* The handling of a yellow press of peer c that the server accepts: the
\* peer is configured, its cooldown has passed and the mode is RED_ACTIVE.
YellowAccepted(c) ==
    /\ YellowHandled(c)
    /\ current_mode = "red_active"
    /\ ~CooldownActive(now, client_last_press[c])

\* C16: an accepted yellow press of peer c toggles c's yellow state and
\* produces exactly one command message, on c's yellow command topic with
\* c's new yellow state; no other client's yellow state or yellow LED changes.
C16_YellowCommandToPeerOnly ==
    [][\A c \in Clients :
        YellowAccepted(c) =>
            /\ client_yellow_states'[c] = ~client_yellow_states[c]
            /\ Cardinality({i \in DOMAIN out' : IsCommand(out'[i])}) = 1
            /\ \A i \in DOMAIN out' :
                   IsCommand(out'[i]) =>
                       out'[i] = Cmd(c, "yellow", client_yellow_states'[c])
            /\ \A d \in Clients \ {c} :
                   /\ client_yellow_states'[d] = client_yellow_states[d]
                   /\ YellowLedName(d) \in ServerLeds =>
                          /\ led_states'["server"][YellowLedName(d)]
                                 = led_states["server"][YellowLedName(d)]
                          /\ led_out'[YellowLedName(d)] = led_out[YellowLedName(d)]]_vars

\* client2's press is accepted while client1's yellow state is on: one
\* command, to client2, and client1's state and LED stay on.
C16_Witness ==
    /\ op.node = "server" /\ op.name = "yellow" /\ op.arg = "client2"
    /\ out = <<Cmd("client2", "yellow", TRUE)>>
    /\ client_yellow_states["client1"] /\ led_states["server"]["yellow_client1"]

\* C17: a heartbeat or a yellow-button message whose client identifier is
\* not in the roster is ignored: handling it leaves the presence table, the
\* per-client yellow states, the cooldown timestamps, the LEDs and the mode
\* unchanged and publishes nothing.
C17_UnknownPeerIgnored ==
    [][(/\ op'.node = "server"
        /\ op'.name \in {"heartbeat", "yellow"}
        /\ op'.arg \notin Clients) =>
           /\ connected_clients' = connected_clients
           /\ client_yellow_states' = client_yellow_states
           /\ client_last_press' = client_last_press
           /\ led_states' = led_states
           /\ led_out' = led_out
           /\ current_mode' = current_mode
           /\ out' = <<>>]_vars

\* C18: a client started through run() whose session is connected publishes
\* a non-retained heartbeat at every interval: no heartbeat interval passes,
\* on a client that run() has started and whose session is connected, without
\* its heartbeat being published.
C18_HeartbeatEveryInterval ==
    [][\A c \in Clients :
        (now' = now + HEARTBEAT_INTERVAL /\ c \in running /\ IsConnected(c)) =>
            out' = <<HeartbeatMsg(c)>>]_vars

HeartbeatTicked(c) == op'.name = "heartbeat_tick" /\ op'.node = c

\* C19: a heartbeat tick taken while the session is not connected publishes
\* nothing and leaves nothing with the session or the broker to be sent
\* later, and the heartbeats published never outnumber the ticks taken while
\* the session was connected.
C19_SkippedNotQueued ==
    /\ [](\A c \in Clients : beats[c].sent <= beats[c].connected)
    /\ [][\A c \in Clients :
            (HeartbeatTicked(c) /\ ~IsConnected(c)) =>
                /\ out' = <<>>
                /\ inbox' = inbox
                /\ retained' = retained
                /\ beats'[c].sent = beats[c].sent]_vars

\* Ticks were skipped while disconnected, and the tick after the reconnect
\* published one heartbeat.
C19_Witness ==
    /\ op.name = "heartbeat_tick" /\ op.connected
    /\ out = <<HeartbeatMsg(op.node)>>
    /\ beats[op.node].ticks >= beats[op.node].connected + 2
    /\ beats[op.node].sent = beats[op.node].connected
    /\ beats[op.node].sent >= 2

\* C20: a button handler whose publishes find the session not connected
\* sends no message, and publish neither blocks nor raises: it does not enter
\* mqtt_client.reconnect(), which opens the connection on the caller's
\* thread, and the handler goes on to apply its local mode and LED changes.
C20_DisconnectedPublishSkips ==
    (ButtonHandled /\ ~op.connected) =>
        /\ out = <<>>
        /\ ~op.reconnect
        /\ PressedRedOrGreen => LocalAfterPress
        /\ PressedClear => LocalAfterClear

\* ------------------------------------------------------------ claims, shutdown

\* The loops of the process: none of them is running any more.
AllLoopsExited ==
    /\ main \in {"done", "raised"}
    /\ poll.pc = "exited"
    /\ \A c \in Clients : ~heartbeat_running[c]

C22_CleanupAttemptsAll ==
    (op.name = "cleanup") =>
        /\ "gpio" \in released
        /\ main = "done"

\* ------------------------------------------------------------ claims, GPIO construction

\* Two logical names, buttons or LEDs, are given the same pin.
Collision ==
    \/ \E a, b \in Buttons : a # b /\ pin_config.buttons[a] = pin_config.buttons[b]
    \/ \E a, b \in ServerLeds : a # b /\ pin_config.leds[a] = pin_config.leds[b]
    \/ \E a \in Buttons, b \in ServerLeds : pin_config.buttons[a] = pin_config.leds[b]

\* C23: when two logical names map to the same pin the construction of the
\* GPIO manager fails before any pin has been set up as an input or an
\* output, and no manager is produced; without a collision it succeeds, with
\* every button pin an input and every LED pin an output.
C23_CollisionFailsEarly ==
    (gpio_setup.status # "new") =>
        /\ Collision =>
               /\ gpio_setup.status = "failed"
               /\ gpio_setup.inputs = {} /\ gpio_setup.outputs = {}
        /\ ~Collision =>
               /\ gpio_setup.status = "ready"
               /\ gpio_setup.inputs = {pin_config.buttons[b] : b \in Buttons}
               /\ gpio_setup.outputs = {pin_config.leds[l] : l \in ServerLeds}

\* A button and an LED share a pin, no two buttons and no two LEDs do, and
\* the construction has failed.
C23_Witness ==
    /\ gpio_setup.status = "failed"
    /\ pin_config.buttons["red"] = pin_config.leds["green"]
    /\ pin_config.buttons["red"] # pin_config.buttons["green"]
    /\ Cardinality({pin_config.leds[l] : l \in ServerLeds}) = 3

\* ------------------------------------------------------------ claims, delivery flags

\* The class of a topic: the level after the node, "state", "event", "cmd"
\* or "heartbeat".
TopicClass(topic) == IF topic[2] = "server" THEN topic[3] ELSE topic[4]

\* C24: every message a node publishes carries the flags of its topic class:
\* an LED state is retained with QoS 1, a button event and an LED command are
\* not retained and have QoS 1, a heartbeat is not retained; so no command,
\* event or heartbeat is ever published retained.
C24_DeliveryFlags ==
    \A i \in DOMAIN out :
        /\ TopicClass(out[i].topic) \in {"state", "event", "cmd", "heartbeat"}
        /\ TopicClass(out[i].topic) = "state" => out[i].retain /\ out[i].qos = 1
        /\ TopicClass(out[i].topic) \in {"event", "cmd"} =>
               ~out[i].retain /\ out[i].qos = 1
        /\ TopicClass(out[i].topic) = "heartbeat" => ~out[i].retain

\* A server press publishes its event, an LED state and the commands, after
\* a client has published a heartbeat.
C24_Witness ==
    /\ op.name = "button" /\ op.node = "server" /\ op.connected
    /\ \E i \in DOMAIN out : TopicClass(out[i].topic) = "event"
    /\ \E i \in DOMAIN out : TopicClass(out[i].topic) = "state"
    /\ \E i \in DOMAIN out : TopicClass(out[i].topic) = "cmd"
    /\ beats["client1"].sent >= 1

\* ------------------------------------------------------------ claims, mode

\* The step handles a local red, green or clear press on the server.
ModeButtonHandled ==
    /\ op'.name = "button" /\ op'.node = "server"
    /\ op'.arg \in {"red", "green", "clear"}

\* C25: the server's mode changes only while a local red, green or clear
\* press is handled: handling a heartbeat, a peer's yellow-button message, a
\* connect notification or any other local button leaves it unchanged.
C25_ModeChangesOnlyOnPress ==
    [][/\ current_mode' # current_mode => ModeButtonHandled
       /\ (\/ op'.name \in {"heartbeat", "yellow", "connect"}
           \/ (op'.name = "button" /\ ~ModeButtonHandled)) =>
              current_mode' = current_mode]_vars

\* In RED_ACTIVE a peer's yellow press has been accepted and has toggled the
\* peer's yellow state: the mode is still RED_ACTIVE.
C25_Witness ==
    /\ op.name = "yellow" /\ op.node = "server" /\ op.mode = "red_active"
    /\ op.arg \in Clients /\ client_yellow_states[op.arg]
    /\ current_mode = "red_active"

\* ------------------------------------------------------------ claims, client button

\* The step handles a local yellow press on a client.
ClientYellowHandled ==
    op'.name = "button" /\ op'.node \in Clients /\ op'.arg = "yellow"

\* C26: a local yellow press on a client makes one call, the publish of the
\* generic button event, so that nothing but that event is published, and it
\* mutates no local state: every LED's cached state, on every node, is the
\* same before and after the press.
C26_ClientYellowOnlyEvent ==
    [][ClientYellowHandled =>
          /\ Len(trace') = 1
          /\ trace'[1].call = "publish"
          /\ trace'[1].arg = Msg(EventTopic(op'.node, "yellow"), [pressed |-> TRUE], FALSE, 1)
          /\ \A i \in DOMAIN out' : out'[i] = trace'[1].arg
          /\ Len(out') <= 1
          /\ led_states' = led_states
          /\ led_out' = led_out]_vars

\* A connected client whose red LED is on presses yellow: the event is
\* published and the LEDs are as before.
C26_Witness ==
    /\ op.name = "button" /\ op.node = "client1" /\ op.arg = "yellow" /\ op.connected
    /\ out = <<Msg(EventTopic("client1", "yellow"), [pressed |-> TRUE], FALSE, 1)>>
    /\ led_states["client1"]["red"] /\ ~led_states["client1"]["yellow"]

\* ------------------------------------------------------------ claims, inbound messages

\* Payloads that are empty or cannot be decoded.
Undecodable == {"empty", "blank", "not_utf8", "not_json"}

\* The step is node n's _on_message for the oldest message it has received.
MessageHandled(n) ==
    /\ op'.node = n
    /\ op'.name \in {"heartbeat", "yellow", "command", "none", "dropped"}

\* C27: an inbound message whose payload is empty or cannot be decoded is
\* dropped: handling it changes no LED, not the mode, no yellow state, no
\* cooldown timestamp and no presence entry, publishes nothing, and leaves the
\* network thread free and the messages behind it in place, so that later
\* messages are still handled.
C27_MalformedDropped ==
    [][\A n \in Nodes :
        (/\ inbox[n] # <<>>
         /\ Head(inbox[n]).body \in Undecodable
         /\ MessageHandled(n)) =>
            /\ led_states' = led_states
            /\ led_out' = led_out
            /\ current_mode' = current_mode
            /\ client_yellow_states' = client_yellow_states
            /\ client_last_press' = client_last_press
            /\ connected_clients' = connected_clients
            /\ out' = <<>>
            /\ inbox'[n] = Tail(inbox[n])
            /\ net_busy' = net_busy]_vars

\* In RED_ACTIVE, with client2's cooldown long past, the server has dropped
\* a message and client2's yellow state is still off.
C27_Witness ==
    /\ op.name = "dropped" /\ op.node = "server"
    /\ current_mode = "red_active"
    /\ ~client_yellow_states["client2"]
    /\ "client2" \notin DOMAIN connected_clients

\* ------------------------------------------------------------ claims, presence pruning

\* C28: a presence entry stays in the table while its last heartbeat is at
\* most twice the timeout old, and is gone from the table once more than twice
\* the timeout has passed without a heartbeat from that peer.
C28_PrunedAfterTwiceTimeout ==
    /\ [][\A id \in DOMAIN connected_clients :
            now - connected_clients[id] <= CLIENT_TIMEOUT * 2 =>
                id \in DOMAIN connected_clients']_vars
    /\ [](\A id \in DOMAIN connected_clients :
            now - connected_clients[id] <= CLIENT_TIMEOUT * 2)

\* ------------------------------------------------------------ claims, concurrent set_led

\* Calls i and i + 1, in the order they finished, were made by two threads
\* on the same LED with the same state, the later one before the earlier one
\* had finished, and the state was not the cached one when the earlier call
\* compared.
ConcurrentPair(i) ==
    /\ i \in 1..(Len(calls) - 1)
    /\ calls[i].thread # calls[i + 1].thread
    /\ calls[i + 1].start < i
    /\ calls[i].color = calls[i + 1].color
    /\ calls[i].state = calls[i + 1].state
    /\ calls[i].color \in ServerLeds
    /\ calls[i].cached # calls[i].state

\* Whenever no thread is inside set_led the cached state of every LED is the
\* level last written to its pin.
CacheIsPin ==
    gpio_lock = "free" => \A l \in ServerLeds : led_states["server"][l] = led_out[l]

\* C29 as stated: the check, the write and the cache update of a set_led
\* call are one atomic step, so the cached state is the last value written to
\* the pin, and of two concurrent calls asking for the same new state exactly
\* one reports changed.
C29_ExactlyOneChanged ==
    /\ CacheIsPin
    /\ \A i \in 1..MaxCalls :
          ConcurrentPair(i) => (calls[i].changed # calls[i + 1].changed)

\* C29: the check, the write and the cache update of a set_led call are one
\* atomic step: the cached state is the last value written to the pin, and
\* of two concurrent calls asking for the same new state never both report
\* changed, and exactly one does unless GPIO.output throws in both.
C29_AtomicSetLed ==
    /\ CacheIsPin
    /\ \A i \in 1..MaxCalls :
          ConcurrentPair(i) =>
             /\ ~(calls[i].changed /\ calls[i + 1].changed)
             /\ (calls[i].output # "raised" \/ calls[i + 1].output # "raised") =>
                    (calls[i].changed # calls[i + 1].changed)

\* Both threads asked for red on while it was off; the first to get the lock
\* wrote the pin and the other, which had waited, found the state cached.
C29_Witness ==
    /\ ConcurrentPair(1)
    /\ calls[1].color = "red" /\ calls[1].state
    /\ calls[1].changed /\ calls[1].output = "written"
    /\ ~calls[2].changed /\ calls[2].output = "none"
    /\ led_out["red"] /\ led_states["server"]["red"]

\* ------------------------------------------------------------ claims, connection signal

\* C30: the signal behind wait_for_connection is set on each successful
\* connect and cleared on disconnect: a wait_for_connection call that returns
\* while the session is disconnected, after a disconnect and before the next
\* successful connect, returns false.
C30_SignalRearmed ==
    [][\A n \in Nodes :
        (/\ ~mqtt_connected[n]
         /\ op'.name = "wait" /\ op'.node = n) => ~op'.changed]_vars

\* ------------------------------------------------------------ claims, manual reconnect

\* C31: the session calls mqtt_client.reconnect() only in the split state,
\* its flag set and the transport not connected; handling a disconnect
\* notification calls no reconnect.
C31_ReconnectOnlySplit ==
    [][\A n \in Nodes :
        (op'.node = n /\ op'.reconnect) =>
            /\ op'.name # "disconnect"
            /\ mqtt_connected[n] /\ ~link[n]]_vars

\* ------------------------------------------------------------ claims, handlers on several threads

\* No button handler of the server is in progress.
ButtonsIdle == Len(todo["irq"]) = 0 /\ Len(todo["poll"]) = 0

\* A yellow=ON command is among the messages.
YellowOnSent(sent) ==
    \E i \in DOMAIN sent, c \in Clients :
        /\ sent[i].topic = CmdTopic(c, "yellow")
        /\ sent[i].payload.state

\* C32: under any interleaving of the network thread with the button
\* thread, a peer's yellow press is applied only while the mode is RED_ACTIVE:
\* when the mode is not RED_ACTIVE and no button handler is in progress, no
\* per-client yellow state and no yellow LED is on, and no yellow=ON command
\* is sent.
C32_YellowOnlyInRed ==
    /\ []((current_mode # "red_active" /\ ButtonsIdle) =>
            /\ \A c \in Clients : ~client_yellow_states[c]
            /\ ~led_states["server"]["yellow_client1"])
    /\ [][(current_mode # "red_active" /\ ButtonsIdle) => ~YellowOnSent(out')]_vars

\* C33: on the server, whenever no button handler is in progress the LEDs
\* agree with the mode: RED_ACTIVE has red on and green off, GREEN_ACTIVE has
\* green on and red off, IDLE has every LED off, also when two presses are
\* handled at once by the interrupt dispatcher and the polling thread.
C33_LedsAgreeWithMode ==
    ButtonsIdle =>
        /\ current_mode = "red_active" =>
              led_states["server"]["red"] /\ ~led_states["server"]["green"]
        /\ current_mode = "green_active" =>
              led_states["server"]["green"] /\ ~led_states["server"]["red"]
        /\ current_mode = "idle" => \A l \in ServerLeds : ~led_states["server"][l]

\* The state of LED l of node n as a retained state message would carry it.
CachedAs(n, l) == IF led_states[n][l] THEN "on" ELSE "off"

\* C34: while the session stays connected, once an LED change has been fully
\* handled the most recent retained state message published for the LED
\* carries the LED's cached state, on a client also after it applied an
\* inbound LED command.
C34_RetainedStateCurrent ==
    \A n \in Nodes : \A l \in DOMAIN state_sent[n] :
        (IsConnected(n) /\ link[n] /\ state_sent[n][l] # "none") =>
            state_sent[n][l] = CachedAs(n, l)

\* C35: the republish after a connect never overwrites a newer state with an
\* older one: when republish_led_states and a publishing set_led of another
\* thread for the same LED have both completed, the last retained state
\* message published for the LED equals the LED's cached state.
C35_RepublishKeepsNewest ==
    (Len(todo["network"]) = 0 /\ ButtonsIdle) =>
        \A l \in ServerLeds :
            state_sent["server"][l] # "none" =>
                state_sent["server"][l] = CachedAs("server", l)

\* C36: once a flash cycle of a status worker has ended, the cached state of
\* every LED is the state the coordinator last set for it, in any interleaving
\* with button handling (red is ON after a flash cycle in RED_ACTIVE).
C36_FlashRestoresLed ==
    Len(todo["status"]) = 0 =>
        \A l \in ServerLeds : led_states["server"][l] = coord_led[l]

\* C37: a peer's yellow press handled while the mode is not RED_ACTIVE leaves
\* all coordinator state unchanged, the peer's cooldown timestamp included, so
\* the peer's first press after the server enters RED_ACTIVE is accepted
\* however recently the peer pressed before.
C37_IgnoredPressLeavesNoStamp ==
    [][\A c \in Clients :
        (YellowHandled(c) /\ current_mode # "red_active") =>
            /\ current_mode' = current_mode
            /\ client_yellow_states' = client_yellow_states
            /\ client_last_press' = client_last_press
            /\ connected_clients' = connected_clients]_vars

\* C38: whenever run() returns, also when the wait for the first connection
\* times out or the session reports not connected, cleanup has been
\* performed: the session has been disconnected and the GPIO released.
C38_ReturnImpliesCleanup ==
    main \in {"returned", "done"} => released = {"mqtt", "gpio"}

\* C39: shutdown() on a client or a server stops the node's heartbeat and
\* status worker threads and then completes the base cleanup, the session
\* disconnected and the GPIO released, without raising an error.
C39_ShutdownCleansUp ==
    (op.name = "shutdown") =>
        /\ op.node \in Clients => ~heartbeat_running[op.node]
        /\ main = "done"
        /\ released = {"mqtt", "gpio"}

\* Thread ctx is inside the button callback: its press has been accepted and
\* the statements of handle_button_press are being executed.
InCallback(ctx) == Len(todo[ctx]) > 0 /\ Head(todo[ctx]).call # "accepted"

\* C40: gpio_lock is never held while the button callback runs, so no
\* deadlock is reachable: a button handler on the interrupt dispatcher or the
\* polling thread that calls set_led, beside set_led calls of the network
\* thread, gets the lock every time and runs to its end.
C40_CallbackOutsideLock ==
    /\ [](\A ctx \in {"irq", "poll"} : InCallback(ctx) => gpio_lock # ctx)
    /\ \A ctx \in {"irq", "poll"} : (Len(todo[ctx]) > 0) ~> (Len(todo[ctx]) = 0)

\* The interrupt dispatcher has just executed a set_led of its handler while
\* the network thread has a set_led of its own to execute next.
C40_Witness ==
    /\ op.name = "set_led" /\ op.arg = "irq"
    /\ gpio_lock = "free"
    /\ Len(todo["network"]) > 0 /\ Head(todo["network"]).call = "set_led"
    /\ Len(todo["poll"]) > 0

====
